---------------------------- MODULE Spec2Model ----------------------------
(***************************************************************************)
(* A model of Graphics/ShaderTools/src/DXCompiler.cpp (DiligentCore):      *)
(*   - DXCompilerImpl::RemapResourceBindings and the DXIL text patchers    *)
(*     (PatchDXIL, PatchResourceDeclarationRT, PatchResourceDeclaration,   *)
(*     PatchResourceHandle, ReplaceRecord),                                *)
(*   - IsDXILBytecode, the container prober,                               *)
(*   - DXCompilerImpl::Load and the accessors built on it.                 *)
(*                                                                         *)
(* The DXIL text is a TLA+ string addressed, as in the source, by 0-based  *)
(* byte offsets.  Uint32 is an unsigned integer of UintBits    *)
(* bits (TLC's integers cannot hold 2^32), int is its signed counterpart.  *)
(***************************************************************************)
EXTENDS Integers, Sequences, FiniteSets

(***************************************************************************)
(* Integer widths.                                                         *)
(***************************************************************************)
UintBits == 8

RECURSIVE Pow2(_)
Pow2(n) == IF n = 0 THEN 1 ELSE 2 * Pow2(n - 1)

UintMod  == Pow2(UintBits)
UINT_MAX == UintMod - 1
INT_MAX  == Pow2(UintBits - 1) - 1
INT_MIN  == 0 - Pow2(UintBits - 1)

\* static_cast<Uint32>(int) and Uint32 arithmetic
ToU32(i) == i % UintMod

\* How LLVM prints an i32 that holds the Uint32 u
ToI32(u) == IF u > INT_MAX THEN u - UintMod ELSE u

Min(a, b) == IF a < b THEN a ELSE b
Max(a, b) == IF a > b THEN a ELSE b

(***************************************************************************)
(* std::string operations, on 0-based offsets.                             *)
(***************************************************************************)
\* String::npos is SIZE_MAX: larger than any offset, so that "pos < size()"
\* is false at npos as it is in the source
npos == Pow2(30) - 1

\* The '\0' that terminates c_str() and that operator[] yields at size()
NUL == ""

\* DXIL[p]
CharAt(s, p) == IF p >= 0 /\ p < Len(s) THEN SubSeq(s, p + 1, p + 1) ELSE NUL

\* s.substr(p, n) for p <= s.size(); a count past the end takes the rest
Substr(s, p, n) ==
    IF p + n > Len(s) THEN SubSeq(s, p + 1, Len(s))
    ELSE SubSeq(s, p + 1, p + n)

\* std::strncmp(&s[p], pat, pat.length()) == 0
StrNCmpEq(s, p, pat) ==
    /\ p + Len(pat) <= Len(s)
    /\ SubSeq(s, p + 1, p + Len(pat)) = pat

\* Rest applied to value, with value computed once, as a local of the code is
Once(value, Rest(_)) == CHOOSE result \in {Rest(v) : v \in {value}} : TRUE

SetMin(S) == CHOOSE x \in S : \A y \in S : x <= y
SetMax(S) == CHOOSE x \in S : \A y \in S : x >= y

\* s.find(pat, from)
Find(s, pat, from) ==
    LET hits == {i \in Max(from, 0)..(Len(s) - Len(pat)) : StrNCmpEq(s, i, pat)}
    IN  IF hits = {} THEN npos ELSE SetMin(hits)

\* s.rfind(pat, from): the last occurrence that starts at or before from
RFind(s, pat, from) ==
    LET hits == {i \in 0..Min(from, Len(s) - Len(pat)) : StrNCmpEq(s, i, pat)}
    IN  IF hits = {} THEN npos ELSE SetMax(hits)

\* s.find_first_not_of(chars, from)
FindFirstNotOf(s, chars, from) ==
    LET hits == {i \in Max(from, 0)..(Len(s) - 1) : CharAt(s, i) \notin chars}
    IN  IF hits = {} THEN npos ELSE SetMin(hits)

\* s.replace(p, n, new) for p <= s.size(); a count past the end replaces the rest
Replace(s, p, n, new) ==
    LET e == IF p + n > Len(s) THEN Len(s) ELSE p + n
    IN  SubSeq(s, 1, p) \o new \o SubSeq(s, e + 1, Len(s))

\* s.insert(p, str)
Insert(s, p, str) == SubSeq(s, 1, p) \o str \o SubSeq(s, p + 1, Len(s))

(***************************************************************************)
(* Characters and numbers.                                                 *)
(***************************************************************************)
Digits == {"0", "1", "2", "3", "4", "5", "6", "7", "8", "9"}

\* static const String NumberSymbols = "+-0123456789"
NumberSymbols == Digits \cup {"+", "-"}

Letters ==
    {"a", "b", "c", "d", "e", "f", "g", "h", "i", "j", "k", "l", "m",
     "n", "o", "p", "q", "r", "s", "t", "u", "v", "w", "x", "y", "z",
     "A", "B", "C", "D", "E", "F", "G", "H", "I", "J", "K", "L", "M",
     "N", "O", "P", "Q", "R", "S", "T", "U", "V", "W", "X", "Y", "Z"}

WordSymbols == Digits \cup Letters \cup {"_"}

IsWordSymbol(c) == c \in WordSymbols

IsNumberSymbol(c) == c \in Digits

DigitVal(c) ==
    CASE c = "0" -> 0 [] c = "1" -> 1 [] c = "2" -> 2 [] c = "3" -> 3
      [] c = "4" -> 4 [] c = "5" -> 5 [] c = "6" -> 6 [] c = "7" -> 7
      [] c = "8" -> 8 [] c = "9" -> 9

DigitChar(d) ==
    CASE d = 0 -> "0" [] d = 1 -> "1" [] d = 2 -> "2" [] d = 3 -> "3"
      [] d = 4 -> "4" [] d = 5 -> "5" [] d = 6 -> "6" [] d = 7 -> "7"
      [] d = 8 -> "8" [] d = 9 -> "9"

\* std::to_string of a non-negative value
RECURSIVE to_string(_)
to_string(n) == IF n < 10 THEN DigitChar(n) ELSE to_string(n \div 10) \o DigitChar(n % 10)

\* An i32 operand as the disassembler prints it (signed)
I32Str(u) == IF ToI32(u) < 0 THEN "-" \o to_string(0 - ToI32(u)) ELSE to_string(ToI32(u))

\* The number of decimal digits of s that start at offset p
RECURSIVE DigitRun(_, _)
DigitRun(s, p) == IF IsNumberSymbol(CharAt(s, p)) THEN 1 + DigitRun(s, p + 1) ELSE 0

\* The value of the n digits of s at offset p, saturated above INT_MAX + 1
RECURSIVE DigitsVal(_, _, _, _)
DigitsVal(s, p, n, acc) ==
    IF n = 0 THEN acc
    ELSE DigitsVal(s, p + 1, n - 1, Min(acc * 10 + DigitVal(CharAt(s, p)), INT_MAX + 2))

\* strtol's reading of s from offset p: an optional sign, then digits.
\* digits = 0 when no conversion can be performed.
ParseDigits(s, q, n, negative) ==
    [digits |-> n,
     val |-> IF negative THEN 0 - DigitsVal(s, q, n, 0) ELSE DigitsVal(s, q, n, 0)]

ParseInt(s, p) ==
    IF CharAt(s, p) \in {"+", "-"}
    THEN ParseDigits(s, p + 1, DigitRun(s, p + 1), CharAt(s, p) = "-")
    ELSE ParseDigits(s, p, DigitRun(s, p), FALSE)

\* std::stoi(str), as the parse of str; it throws std::invalid_argument when
\* there is no digit and std::out_of_range when the value does not fit an int
Stoi(str) == ParseInt(str, 0)

StoiThrows(r) == r.digits = 0 \/ r.val > INT_MAX \/ r.val < INT_MIN

\* std::atoi(s.c_str() + p): 0 when there is no digit; the operands read
\* with it (record ids, resource classes) are small.
Atoi(s, p) == ParseInt(s, p).val


(***************************************************************************)
(* Resource types and the inputs of a remap.                               *)
(***************************************************************************)
\* enum RES_TYPE
RES_TYPE_CBV     == 0
RES_TYPE_SRV     == 1
RES_TYPE_SAMPLER == 2
RES_TYPE_UAV     == 3
RES_TYPE_COUNT   == 4
RES_TYPE_INVALID == UINT_MAX

\* static const RES_TYPE ResClassToType[] = {SRV, UAV, CBV, SAMPLER},
\* indexed by the resource class operand of createHandle
ResClassToType == <<RES_TYPE_SRV, RES_TYPE_UAV, RES_TYPE_CBV, RES_TYPE_SAMPLER>>

\* ResClassToType[ResClass]: reading past the 4 entries is undefined, the
\* value read is whatever follows the table
ResClassToTypeAt(ResClass) ==
    IF ResClass < Len(ResClassToType) THEN {ResClassToType[ResClass + 1]}
    ELSE {RES_TYPE_CBV, RES_TYPE_SRV, RES_TYPE_SAMPLER, RES_TYPE_UAV, RES_TYPE_INVALID}

\* The D3D_SHADER_INPUT_TYPE -> RES_TYPE switch of RemapResourceBindings;
\* RES_TYPE_INVALID stands for the default branch (return false)
InputTypeToResType(t) ==
    CASE t = "D3D_SIT_CBUFFER" -> RES_TYPE_CBV
      [] t = "D3D_SIT_SAMPLER" -> RES_TYPE_SAMPLER
      [] t \in {"D3D_SIT_TBUFFER", "D3D_SIT_TEXTURE", "D3D_SIT_STRUCTURED",
                "D3D_SIT_BYTEADDRESS", "D3D_SIT_RTACCELERATIONSTRUCTURE"} -> RES_TYPE_SRV
      [] t \in {"D3D_SIT_UAV_RWTYPED", "D3D_SIT_UAV_RWSTRUCTURED",
                "D3D_SIT_UAV_RWBYTEADDRESS", "D3D_SIT_UAV_APPEND_STRUCTURED",
                "D3D_SIT_UAV_CONSUME_STRUCTURED",
                "D3D_SIT_UAV_RWSTRUCTURED_WITH_COUNTER",
                "D3D_SIT_UAV_FEEDBACKTEXTURE"} -> RES_TYPE_UAV
      [] OTHER -> RES_TYPE_INVALID

\* The D3D12_SHVER_GET_TYPE(ShDesc.Version) switch: 7..12 are the ray tracing
\* kinds, and (ShaderType & SHADER_TYPE_ALL_RAY_TRACING) != 0 holds for them
IsRayTracingShType(ShType) == ShType \in 7..12

\* struct ResourceExtendedInfo, default constructed
DefaultExt ==
    [SrcBindPoint |-> UINT_MAX, SrcSpace |-> UINT_MAX,
     RecordId |-> UINT_MAX, Type |-> RES_TYPE_INVALID]

(***************************************************************************)
(* The DXIL text of a shader, as the disassembler prints it.  A shader is  *)
(* a record [decls, body, rt]: its resource declarations (metadata         *)
(* resource records), its instructions, and whether it is a ray tracing    *)
(* library.                                                                *)
(***************************************************************************)
CallHandlePattern == " = call %dx.types.Handle @dx.op.createHandle("
ResourceRecStart  == "= !{"
ResNameDecl       == ", !\""

TypeRef(d) ==
    IF d.arr > 1 THEN "[" \o to_string(d.arr) \o " x " \o d.type \o "]" ELSE d.type

\* One metadata resource record with the given name literal and the given
\* texts of its space and bind point fields:
\*   !5 = !{i32 0, %"class.Texture2D<vector<float, 4> >"* undef, !"", i32 -1, i32 -1, i32 1, i32 2, i32 0, !6}
DeclText(d, name, space, bind) ==
    "!" \o to_string(d.md) \o " = !{i32 " \o to_string(d.id) \o ", "
        \o TypeRef(d) \o "* " \o d.sym \o ", !\"" \o name \o "\", i32 " \o space
        \o ", i32 " \o bind \o ", i32 " \o to_string(d.count) \o ", i32 0, !6}\n"

RenderDecl(d) ==
    DeclText(d, IF d.named THEN d.name ELSE "", I32Str(d.space), I32Str(d.bind))

\* One instruction of the body
RenderInstr(i) ==
    CASE i.op = "handle" ->
            "  %" \o to_string(i.res) \o CallHandlePattern \o "i32 57, i8 "
                \o to_string(i.cls) \o ", i32 " \o to_string(i.range) \o ", i32 "
                \o i.idx \o ", i1 false)\n"
      [] i.op = "add" ->
            "  " \o i.var \o " = add i32 " \o i.a \o ", " \o i.b \o "\n"
      [] i.op = "text" -> i.text

RECURSIVE Concat(_)
Concat(ss) == IF ss = <<>> THEN "" ELSE Head(ss) \o Concat(Tail(ss))

RenderShader(sh) ==
    Concat([k \in 1..Len(sh.body) |-> RenderInstr(sh.body[k])])
        \o Concat([k \in 1..Len(sh.decls) |-> RenderDecl(sh.decls[k])])

(***************************************************************************)
(* ReplaceRecord and the parsing lambdas of the patch passes.  An operator *)
(* that can throw returns a record whose field threw tells whether it did. *)
(* A pass is written as a chain of operators, each taking the positions    *)
(* and values that the statements before it have computed.                 *)
(***************************************************************************)
i32 == "i32 "
i8  == "i8 "

\* pos + 1 < DXIL.length() && DXIL[pos] == ',' && DXIL[pos + 1] == ' '
CommaSpaceAt(DXIL, pos) ==
    pos + 1 < Len(DXIL) /\ CharAt(DXIL, pos) = "," /\ CharAt(DXIL, pos + 1) = " "

Threw(DXIL, pos) == [threw |-> TRUE, DXIL |-> DXIL, pos |-> pos]

\* A ReplaceRecord that checks the previous value but leaves the text as it
\* was: the faulty variant that the declaration properties rule out
ReplaceRecordKept(DXIL, pos, RecordEndPos, PrevValue, NewValue, ExpectedPrevValue) ==
    IF StoiThrows(PrevValue) THEN Threw(DXIL, pos)
    ELSE IF ToU32(PrevValue.val) # ExpectedPrevValue THEN Threw(DXIL, pos)
    ELSE [threw |-> FALSE, DXIL |-> DXIL, pos |-> RecordEndPos]

\* A ReplaceRecord that replaces the record whatever its previous value was
ReplaceRecordUnchecked(DXIL, pos, RecordEndPos, PrevValue, NewValue, ExpectedPrevValue) ==
    IF StoiThrows(PrevValue) THEN Threw(DXIL, pos)
    ELSE [threw |-> FALSE,
          DXIL  |-> Replace(DXIL, pos, RecordEndPos - pos, NewValue),
          pos   |-> pos + Len(NewValue)]

\* ReplaceRecord from std::stoi on: PrevValue is the parse of the record's
\* text, which spans [pos, RecordEndPos)
ReplaceRecordValue(DXIL, pos, RecordEndPos, PrevValue, NewValue, ExpectedPrevValue) ==
    IF StoiThrows(PrevValue) THEN Threw(DXIL, pos)
    ELSE IF ToU32(PrevValue.val) # ExpectedPrevValue THEN Threw(DXIL, pos)
    ELSE [threw |-> FALSE,
          DXIL  |-> Replace(DXIL, pos, RecordEndPos - pos, NewValue),
          pos   |-> pos + Len(NewValue)]

\* ReplaceRecord from find_first_not_of on
ReplaceRecordAt(DXIL, pos, RecordEndPos, NewValue, ExpectedPrevValue) ==
    Once(Stoi(Substr(DXIL, pos, RecordEndPos - pos)),
         LAMBDA PrevValue : ReplaceRecordValue(DXIL, pos, RecordEndPos, PrevValue,
                                               NewValue, ExpectedPrevValue))

\* void ReplaceRecord(String& DXIL, size_t& pos, const String& NewValue, ...,
\*                    const Uint32 ExpectedPrevValue): [threw, DXIL, pos]
ReplaceRecord(DXIL, pos, NewValue, ExpectedPrevValue) ==
    IF ~CommaSpaceAt(DXIL, pos) THEN Threw(DXIL, pos)
    ELSE IF ~StrNCmpEq(DXIL, pos + 2, i32) THEN Threw(DXIL, pos + 2)
    ELSE Once(FindFirstNotOf(DXIL, NumberSymbols, pos + 2 + Len(i32)),
              LAMBDA RecordEndPos : ReplaceRecordAt(DXIL, pos + 2 + Len(i32), RecordEndPos,
                                                    NewValue, ExpectedPrevValue))

\* The ReadRecord lambda from std::stoi on
ReadRecordValue(pos, RecordEndPos, CurValue) ==
    IF StoiThrows(CurValue)
    THEN [ok |-> FALSE, threw |-> TRUE, pos |-> pos, val |-> 0]
    ELSE [ok |-> TRUE, threw |-> FALSE, pos |-> RecordEndPos, val |-> ToU32(CurValue.val)]

\* The ReadRecord lambda from find_first_not_of on
ReadRecordAt(DXIL, pos, RecordEndPos) ==
    Once(Stoi(Substr(DXIL, pos, RecordEndPos - pos)),
         LAMBDA CurValue : ReadRecordValue(pos, RecordEndPos, CurValue))

\* The ReadRecord lambda of PatchResourceDeclaration:
\* [ok, threw, pos, val]; pos is written back also when it returns false
ReadRecord(DXIL, pos) ==
    IF ~CommaSpaceAt(DXIL, pos)
    THEN [ok |-> FALSE, threw |-> FALSE, pos |-> pos, val |-> 0]
    ELSE IF ~StrNCmpEq(DXIL, pos + 2, i32)
    THEN [ok |-> FALSE, threw |-> FALSE, pos |-> pos + 2, val |-> 0]
    ELSE Once(FindFirstNotOf(DXIL, NumberSymbols, pos + 2 + Len(i32)),
              LAMBDA RecordEndPos : ReadRecordAt(DXIL, pos + 2 + Len(i32), RecordEndPos))

\* for (; pos < limit; ++pos) if (!(DXIL[pos] in chars)) break;
SkipWhile(DXIL, pos, limit, chars) ==
    LET stops == {q \in pos..(limit - 1) : CharAt(DXIL, q) \notin chars}
    IN  IF stops = {} THEN Max(pos, limit) ELSE SetMin(stops)

\* for (; pos < DXIL.size(); ++pos) if (DXIL[pos] in chars) break;
ScanUntil(DXIL, pos, chars) ==
    LET stops == {q \in pos..(Len(DXIL) - 1) : CharAt(DXIL, q) \in chars}
    IN  IF stops = {} THEN Max(pos, Len(DXIL)) ELSE SetMin(stops)

\* The ReadResName lambda, once its loop has stopped at stop
ReadResNameAt(DXIL, pos, stop) ==
    IF stop < Len(DXIL) /\ CharAt(DXIL, stop) = "\""
    THEN [ok |-> TRUE, pos |-> stop, name |-> Substr(DXIL, pos, stop - pos)]
    ELSE [ok |-> FALSE, pos |-> stop, name |-> ""]

\* The ReadResName lambda: [ok, pos, name]; pos stops at the closing quote,
\* or at the first character that is neither a word symbol nor a quote
ReadResName(DXIL, pos) ==
    Once(SkipWhile(DXIL, pos, Len(DXIL), WordSymbols),
         LAMBDA stop : ReadResNameAt(DXIL, pos, stop))

\* The IsTextureSuffix lambda, applied to &DXIL[pos]
IsTextureSuffix(DXIL, pos) ==
    \E suffix \in {"1D<", "1DArray<", "2D<", "2DArray<", "3D<", "2DMS<",
                   "2DMSArray<", "Cube<", "CubeArray<"} : StrNCmpEq(DXIL, pos, suffix)

\* The NextArg lambda, once its loop has stopped at stop
NextArgAt(DXIL, stop) == [ok |-> CharAt(DXIL, stop) = ",", pos |-> stop]

\* The NextArg lambda of PatchResourceHandle: [ok, pos]
NextArg(DXIL, pos) ==
    Once(ScanUntil(DXIL, pos, {",", ")", "\n"}), LAMBDA stop : NextArgAt(DXIL, stop))

(***************************************************************************)
(* PatchResourceDeclaration: one pass of its scanning loop, up to the      *)
(* search in the resource map.                                             *)
(***************************************************************************)
SamplerPart           == "SamplerState"
TexturePart           == "Texture"
RWTexturePart         == "RWTexture"
AccelStructPart       == "RaytracingAccelerationStructure"
StructBufferPart      == "StructuredBuffer<"
RWStructBufferPart    == "RWStructuredBuffer<"
ByteAddrBufPart       == "ByteAddressBuffer"
RWByteAddrBufPart     == "RWByteAddressBuffer"
TexBufferPart         == "Buffer<"
RWFmtBufferPart       == "RWBuffer<"
DxAlignmentLegacyPart == "dx.alignment.legacy."
StructPart            == "struct."
ClassPart             == "class."

\* "Try to find constant buffer": some CBV entry of ExtResMap whose name the
\* type name at pos starts with, followed by a non-word character
IsConstantBufferType(DXIL, pos, ExtResMap) ==
    \E Name \in DOMAIN ExtResMap :
        /\ ExtResMap[Name].Type = RES_TYPE_CBV
        /\ StrNCmpEq(DXIL, pos, Name)
        /\ ~IsWordSymbol(CharAt(DXIL, pos + Len(Name)))

\* The if / else if chain that sets ResType from the type name at pos;
\* onlyLegacy is (NameParts & ~ALIGNMENT_LEGACY_PART) == 0
ClassifyType(DXIL, pos, onlyLegacy, ExtResMap) ==
    IF StrNCmpEq(DXIL, pos, SamplerPart) THEN RES_TYPE_SAMPLER
    ELSE IF StrNCmpEq(DXIL, pos, TexturePart) /\ IsTextureSuffix(DXIL, pos + Len(TexturePart))
    THEN RES_TYPE_SRV
    ELSE IF StrNCmpEq(DXIL, pos, StructBufferPart) THEN RES_TYPE_SRV
    ELSE IF StrNCmpEq(DXIL, pos, ByteAddrBufPart) THEN RES_TYPE_SRV
    ELSE IF StrNCmpEq(DXIL, pos, TexBufferPart) THEN RES_TYPE_SRV
    ELSE IF StrNCmpEq(DXIL, pos, AccelStructPart) THEN RES_TYPE_SRV
    ELSE IF StrNCmpEq(DXIL, pos, RWTexturePart) /\ IsTextureSuffix(DXIL, pos + Len(RWTexturePart))
    THEN RES_TYPE_UAV
    ELSE IF StrNCmpEq(DXIL, pos, RWStructBufferPart) THEN RES_TYPE_UAV
    ELSE IF StrNCmpEq(DXIL, pos, RWByteAddrBufPart) THEN RES_TYPE_UAV
    ELSE IF StrNCmpEq(DXIL, pos, RWFmtBufferPart) THEN RES_TYPE_UAV
    ELSE IF onlyLegacy /\ IsConstantBufferType(DXIL, pos, ExtResMap) THEN RES_TYPE_CBV
    ELSE RES_TYPE_INVALID

\* if (strncmp(&DXIL[pos], Part, Part.length()) == 0) pos += Part.length();
SkipPart(DXIL, pos, Part) == IF StrNCmpEq(DXIL, pos, Part) THEN pos + Len(Part) ELSE pos

\* The type name after the '%': the STRING_PART, ALIGNMENT_LEGACY_PART,
\* STRUCT_PART and CLASS_PART prefixes are skipped, then the name is classified
TypeAfterLegacy(DXIL, pos, plain, ExtResMap) ==
    ClassifyType(DXIL, SkipPart(DXIL, SkipPart(DXIL, pos, StructPart), ClassPart),
                 plain /\ ~StrNCmpEq(DXIL, pos, StructPart)
                       /\ ~StrNCmpEq(DXIL, SkipPart(DXIL, pos, StructPart), ClassPart),
                 ExtResMap)

TypeAfterQuote(DXIL, pos, plain, ExtResMap) ==
    TypeAfterLegacy(DXIL, SkipPart(DXIL, pos, DxAlignmentLegacyPart), plain, ExtResMap)

ResTypeAt(DXIL, pos, ExtResMap) ==
    IF CharAt(DXIL, pos) = "\""
    THEN TypeAfterQuote(DXIL, pos + 1, FALSE, ExtResMap)
    ELSE TypeAfterQuote(DXIL, pos, TRUE, ExtResMap)

ScanBreak         == [kind |-> "break"]
ScanContinue(pos) == [kind |-> "continue", pos |-> pos]
ScanThrow         == [kind |-> "throw"]

\* "Read binding & space", once both records have been read
DeclScanBinding(BeginOfResName, rn, RecordId, ResType, rdSpace, rdBind) ==
    IF rdSpace.threw THEN ScanThrow
    ELSE IF ~rdSpace.ok THEN ScanContinue(rdSpace.pos)
    ELSE IF rdBind.threw THEN ScanThrow
    ELSE IF ~rdBind.ok THEN ScanContinue(rdBind.pos)
    ELSE [kind |-> "match", pos |-> rdBind.pos,
          ResName |-> rn.name, BeginOfResName |-> BeginOfResName,
          BindingRecordStart |-> rn.pos + 1, RecordId |-> RecordId,
          ResType |-> ResType, Space |-> rdSpace.val, BindPoint |-> rdBind.val]

DeclScanSpace(DXIL, BeginOfResName, rn, RecordId, ResType, rdSpace) ==
    Once(ReadRecord(DXIL, rdSpace.pos),
         LAMBDA rdBind : DeclScanBinding(BeginOfResName, rn, RecordId, ResType, rdSpace, rdBind))

\* From if (ResType == RES_TYPE_INVALID) on
DeclScanClass(DXIL, BeginOfResName, rn, RecordId, ResType) ==
    IF ResType = RES_TYPE_INVALID THEN ScanContinue(rn.pos + 1)
    ELSE Once(ReadRecord(DXIL, rn.pos + 1),
              LAMBDA rdSpace : DeclScanSpace(DXIL, BeginOfResName, rn, RecordId, ResType,
                                             rdSpace))

\* From if (DXIL[pos] != '%') on
DeclScanType(DXIL, BeginOfResName, rn, RecordId, pos, ExtResMap) ==
    IF CharAt(DXIL, pos) # "%" THEN ScanContinue(rn.pos + 1)
    ELSE Once(ResTypeAt(DXIL, pos + 1, ExtResMap),
              LAMBDA ResType : DeclScanClass(DXIL, BeginOfResName, rn, RecordId, ResType))

\* From the read of the record id on: idEnd is where its digits end
DeclScanId(DXIL, EndOfResTypeRecord, rn, RecordIdStartPos, idEnd, ExtResMap) ==
    IF idEnd = npos THEN ScanThrow
    ELSE IF ~CommaSpaceAt(DXIL, idEnd) THEN ScanThrow
    ELSE Once(IF CharAt(DXIL, idEnd + 2) = "["
              THEN SkipWhile(DXIL, idEnd + 3, EndOfResTypeRecord, Digits \cup {" ", "x"})
              ELSE idEnd + 2,
              LAMBDA pos : DeclScanType(DXIL, EndOfResTypeRecord + Len(ResNameDecl), rn,
                                        ToU32(Atoi(DXIL, RecordIdStartPos)), pos, ExtResMap))

\* A scan that takes a record without an i32 id for an error
DeclScanRecordStrict(DXIL, EndOfResTypeRecord, rn, recStart, ExtResMap) ==
    IF ~rn.ok THEN ScanContinue(rn.pos)
    ELSE IF recStart = npos THEN ScanThrow
    ELSE IF ~StrNCmpEq(DXIL, recStart + Len(ResourceRecStart), i32)
    THEN ScanThrow
    ELSE Once(FindFirstNotOf(DXIL, NumberSymbols, recStart + Len(ResourceRecStart) + Len(i32)),
              LAMBDA idEnd : DeclScanId(DXIL, EndOfResTypeRecord, rn,
                                        recStart + Len(ResourceRecStart) + Len(i32), idEnd,
                                        ExtResMap))

\* From "Parse resource class" on: recStart is the result of rfind
DeclScanRecord(DXIL, EndOfResTypeRecord, rn, recStart, ExtResMap) ==
    IF ~rn.ok THEN ScanContinue(rn.pos)
    ELSE IF recStart = npos THEN ScanThrow
    ELSE IF ~StrNCmpEq(DXIL, recStart + Len(ResourceRecStart), i32)
    THEN ScanContinue(rn.pos + 1)
    ELSE Once(FindFirstNotOf(DXIL, NumberSymbols, recStart + Len(ResourceRecStart) + Len(i32)),
              LAMBDA idEnd : DeclScanId(DXIL, EndOfResTypeRecord, rn,
                                        recStart + Len(ResourceRecStart) + Len(i32), idEnd,
                                        ExtResMap))

DeclScanName(DXIL, EndOfResTypeRecord, ExtResMap) ==
    IF EndOfResTypeRecord = npos THEN ScanBreak
    ELSE Once(ReadResName(DXIL, EndOfResTypeRecord + Len(ResNameDecl)),
              LAMBDA rn :
                Once(RFind(DXIL, ResourceRecStart, EndOfResTypeRecord),
                     LAMBDA recStart : DeclScanRecord(DXIL, EndOfResTypeRecord, rn, recStart,
                                                      ExtResMap)))

\* The pass from DXIL.find(ResNameDecl, pos) to "Search in resource map":
\* break, continue (with the cursor to resume from), throw, or a candidate
\* with the fields parsed from its record
DeclScan(DXIL, pos, ExtResMap) ==
    Once(Find(DXIL, ResNameDecl, pos),
         LAMBDA EndOfResTypeRecord : DeclScanName(DXIL, EndOfResTypeRecord, ExtResMap))

\* A search in the resource map that goes by the name literal of the record
DeclMatchesByName(c, ExtResMap) ==
    {Name \in DOMAIN ExtResMap : Name = c.ResName}

\* The entries that "Search in resource map" can stop at: the first one, in
\* the iteration order of the unordered map, that has the parsed triple
DeclMatches(c, ExtResMap) ==
    {Name \in DOMAIN ExtResMap :
        /\ ExtResMap[Name].SrcBindPoint = c.BindPoint
        /\ ExtResMap[Name].SrcSpace = c.Space
        /\ ExtResMap[Name].Type = c.ResType}

\* "Add resource name" left out
DeclRemapNameNever(r, c, Name) == r

\* "Add resource name" without the test that the name literal is empty
DeclRemapNameAlways(r, c, Name) ==
    IF r.threw THEN r
    ELSE [threw |-> FALSE, DXIL |-> Insert(r.DXIL, c.BeginOfResName, Name), pos |-> r.pos]

\* "Add resource name"; the cursor is left where ReplaceRecord put it
DeclRemapName(r, c, Name) ==
    IF r.threw \/ c.ResName # "" THEN r
    ELSE [threw |-> FALSE, DXIL |-> Insert(r.DXIL, c.BeginOfResName, Name), pos |-> r.pos]

DeclRemapBind(r, c, Name, Bind, Ext) ==
    IF r.threw THEN r
    ELSE Once(ReplaceRecord(r.DXIL, r.pos, to_string(Bind.BindPoint), Ext.SrcBindPoint),
              LAMBDA bound : DeclRemapName(bound, c, Name))

\* "Remap bindings" and "Add resource name" for candidate c, matched to the
\* entry Ext of the request Bind named Name: [threw, DXIL, pos]
DeclRemap(DXIL, c, Name, Bind, Ext) ==
    Once(ReplaceRecord(DXIL, c.BindingRecordStart, to_string(Bind.Space), Ext.SrcSpace),
         LAMBDA spaced : DeclRemapBind(spaced, c, Name, Bind, Ext))

(***************************************************************************)
(* PatchResourceDeclarationRT: the body of its loop for one request.       *)
(***************************************************************************)
\* The result of one iteration: "continue" when the name is not in the
\* DXIL, "throw", or "patched"; setId tells whether Ext.RecordId was assigned
DeclRTResult(kind, DXIL, setId, RecordId) ==
    [kind |-> kind, DXIL |-> DXIL, setId |-> setId, RecordId |-> RecordId]

DeclRTBind(r, RecordId) ==
    DeclRTResult(IF r.threw THEN "throw" ELSE "patched", r.DXIL, TRUE, RecordId)

DeclRTSpace(r, RecordId, Bind, Ext) ==
    IF r.threw THEN DeclRTResult("throw", r.DXIL, TRUE, RecordId)
    ELSE Once(ReplaceRecord(r.DXIL, r.pos, to_string(Bind.BindPoint), Ext.SrcBindPoint),
              LAMBDA bound : DeclRTBind(bound, RecordId))

\* From the read of the record id on
DeclRTId(DXIL, RecordIdStartPos, EndOfName, Bind, Ext) ==
    IF FindFirstNotOf(DXIL, NumberSymbols, RecordIdStartPos) = npos
    THEN DeclRTResult("throw", DXIL, FALSE, 0)
    ELSE Once(ReplaceRecord(DXIL, EndOfName, to_string(Bind.Space), Ext.SrcSpace),
              LAMBDA spaced : DeclRTSpace(spaced, ToU32(Atoi(DXIL, RecordIdStartPos)),
                                          Bind, Ext))

\* From "Parse resource class" on: recStart is the result of rfind
DeclRTRecord(DXIL, recStart, EndOfName, Bind, Ext) ==
    IF recStart = npos THEN DeclRTResult("throw", DXIL, FALSE, 0)
    ELSE IF ~StrNCmpEq(DXIL, recStart + Len(ResourceRecStart), i32)
    THEN DeclRTResult("throw", DXIL, FALSE, 0)
    ELSE DeclRTId(DXIL, recStart + Len(ResourceRecStart) + Len(i32), EndOfName, Bind, Ext)

DeclRTName(DXIL, DxilName, EndOfResTypeRecord, Bind, Ext) ==
    IF EndOfResTypeRecord = npos THEN DeclRTResult("continue", DXIL, FALSE, 0)
    ELSE Once(RFind(DXIL, ResourceRecStart, EndOfResTypeRecord),
              LAMBDA recStart : DeclRTRecord(DXIL, recStart,
                                             EndOfResTypeRecord + Len(DxilName), Bind, Ext))

DeclRTFind(DXIL, DxilName, Bind, Ext) ==
    Once(Find(DXIL, DxilName, 0),
         LAMBDA EndOfResTypeRecord : DeclRTName(DXIL, DxilName, EndOfResTypeRecord, Bind, Ext))

\* The body of for (auto& ResPair : ResourceMap) for the request Bind named
\* Name, whose entry ExtResMap[&ResPair] is Ext
DeclRTStep(DXIL, Name, Bind, Ext) == DeclRTFind(DXIL, "!\"" \o Name \o "\"", Bind, Ext)

(***************************************************************************)
(* PatchResourceHandle: one pass of its scanning loop, up to the call of   *)
(* ReplaceBindPoint.                                                       *)
(***************************************************************************)
HandleThrow == [kind |-> "throw"]

\* The operands of a call of ReplaceBindPoint
HandleCall(ResClass, RangeId, IndexEndPos, dynamic, ArgStart, ArgEnd) ==
    [kind |-> "call", ResClass |-> ResClass, RangeId |-> RangeId,
     IndexEndPos |-> IndexEndPos, dynamic |-> dynamic,
     ArgStart |-> ArgStart, ArgEnd |-> ArgEnd]

\* The digits of the literal operand that starts at ArgStart end at ArgEnd
DynamicLiteral(DXIL, ResClass, RangeId, IndexEndPos, ArgStart, ArgEnd) ==
    IF CharAt(DXIL, ArgEnd) \notin {",", "\n"} THEN HandleThrow
    ELSE HandleCall(ResClass, RangeId, IndexEndPos, TRUE, ArgStart, ArgEnd)

\* "first arg is variable, move to second arg": na is the result of NextArg
DynamicSecondArg(DXIL, ResClass, RangeId, IndexEndPos, na) ==
    IF ~na.ok THEN HandleThrow
    ELSE IF ~IsNumberSymbol(CharAt(DXIL, na.pos + 2)) THEN HandleThrow
    ELSE Once(SkipWhile(DXIL, na.pos + 2, Len(DXIL), Digits),
              LAMBDA ArgEnd : DynamicLiteral(DXIL, ResClass, RangeId, IndexEndPos, na.pos + 2,
                                             ArgEnd))

\* A scan that takes the operand after the first one for the literal even
\* when the first operand is the literal
DynamicFirstArgSecond(DXIL, ResClass, RangeId, IndexEndPos, pos) ==
    Once(NextArg(DXIL, pos),
         LAMBDA na : DynamicSecondArg(DXIL, ResClass, RangeId, IndexEndPos, na))

\* "check first arg": pos is the start of the first operand of the add
DynamicFirstArg(DXIL, ResClass, RangeId, IndexEndPos, pos) ==
    IF CharAt(DXIL, pos) = "%"
    THEN Once(NextArg(DXIL, pos),
              LAMBDA na : DynamicSecondArg(DXIL, ResClass, RangeId, IndexEndPos, na))
    ELSE Once(SkipWhile(DXIL, pos, Len(DXIL), Digits),
              LAMBDA ArgEnd : DynamicLiteral(DXIL, ResClass, RangeId, IndexEndPos, pos, ArgEnd))

\* "dynamic bind point": IndexDeclPos is the result of rfind
DynamicIndex(DXIL, ResClass, RangeId, IndexEndPos, IndexDecl, IndexDeclPos) ==
    IF IndexDeclPos = npos THEN HandleThrow
    ELSE DynamicFirstArg(DXIL, ResClass, RangeId, IndexEndPos, IndexDeclPos + Len(IndexDecl))

DynamicIndexDecl(DXIL, ResClass, RangeId, IndexEndPos, IndexDecl) ==
    Once(RFind(DXIL, IndexDecl, IndexEndPos),
         LAMBDA IndexDeclPos : DynamicIndex(DXIL, ResClass, RangeId, IndexEndPos, IndexDecl,
                                            IndexDeclPos))

\* "Replace index"
HandleScanReplace(DXIL, ResClass, RangeId, IndexStartPos, IndexEndPos, SrcIndexStr) ==
    IF SrcIndexStr = "" THEN HandleThrow
    ELSE IF CharAt(SrcIndexStr, 0) = "%"
    THEN DynamicIndexDecl(DXIL, ResClass, RangeId, IndexEndPos, SrcIndexStr \o " = add i32 ")
    ELSE HandleCall(ResClass, RangeId, IndexEndPos, FALSE, IndexStartPos, IndexEndPos)

\* na is the result of NextArg at the index operand
HandleScanIndexEnd(DXIL, ResClass, RangeId, IndexStartPos, na) ==
    IF ~na.ok THEN HandleThrow
    ELSE HandleScanReplace(DXIL, ResClass, RangeId, IndexStartPos, na.pos,
                           Substr(DXIL, IndexStartPos, na.pos - IndexStartPos))

\* CHECK(NextArg(pos)); CHECK(", " at pos); pos += 2; CHECK(strncmp(type));
\* pos += type.length(): [ok, pos], where na is the result of NextArg
NextOperand(DXIL, na, type) ==
    [ok  |-> na.ok /\ CommaSpaceAt(DXIL, na.pos) /\ StrNCmpEq(DXIL, na.pos + 2, type),
     pos |-> na.pos + 2 + Len(type)]

\* "Read index in range"
HandleScanIndex(DXIL, ResClass, RangeId, index) ==
    IF ~index.ok THEN HandleThrow
    ELSE Once(NextArg(DXIL, index.pos),
              LAMBDA na : HandleScanIndexEnd(DXIL, ResClass, RangeId, index.pos, na))

\* "Read resource range ID"
HandleScanRange(DXIL, ResClass, range) ==
    IF ~range.ok THEN HandleThrow
    ELSE Once(NextArg(DXIL, range.pos),
              LAMBDA na : HandleScanIndex(DXIL, ResClass, ToU32(Atoi(DXIL, range.pos)),
                                          NextOperand(DXIL, na, i32)))

\* "Read resource class"
HandleScanClass(DXIL, class) ==
    IF ~class.ok THEN HandleThrow
    ELSE Once(NextArg(DXIL, class.pos),
              LAMBDA na : HandleScanRange(DXIL, ToU32(Atoi(DXIL, class.pos)),
                                          NextOperand(DXIL, na, i32)))

\* "Skip opcode"
HandleScanOpcode(DXIL, callHandlePos) ==
    IF callHandlePos = npos THEN [kind |-> "break"]
    ELSE IF ~StrNCmpEq(DXIL, callHandlePos + Len(CallHandlePattern), i32) THEN HandleThrow
    ELSE Once(NextArg(DXIL, callHandlePos + Len(CallHandlePattern) + Len(i32)),
              LAMBDA na : HandleScanClass(DXIL, NextOperand(DXIL, na, i8)))

\* The pass from DXIL.find(CallHandlePattern, pos) to ReplaceBindPoint:
\* break, throw, or the call's operands and the span of the literal to replace
HandleScan(DXIL, pos) ==
    Once(Find(DXIL, CallHandlePattern, pos),
         LAMBDA callHandlePos : HandleScanOpcode(DXIL, callHandlePos))

\* The range test of ReplaceBindPoint, in Uint32 arithmetic
InBindRange(SrcIndex, SrcBindPoint, ArraySize) ==
    /\ SrcIndex >= SrcBindPoint
    /\ SrcIndex < ToU32(SrcBindPoint + ArraySize)

\* The entries at which the search of ReplaceBindPoint can stop
HandleMatches(RangeId, ResType, SrcIndex, ResourceMap, ExtResMap) ==
    {Name \in DOMAIN ExtResMap :
        /\ ExtResMap[Name].RecordId = RangeId
        /\ ExtResMap[Name].Type = ResType
        /\ InBindRange(SrcIndex, ExtResMap[Name].SrcBindPoint, ResourceMap[Name].ArraySize)}

\* ReplaceBindPoint without the offset of the index in its range
NewBindIndexOfRange(SrcIndex, SrcBindPoint, BindPoint) ==
    BindPoint

\* The index ReplaceBindPoint writes: pBind->BindPoint + IndexOffset
NewBindIndex(SrcIndex, SrcBindPoint, BindPoint) ==
    ToU32(BindPoint + ToU32(SrcIndex - SrcBindPoint))
(***************************************************************************)
(* The shaders and the binding requests a remap is run on.                 *)
(***************************************************************************)
TexType   == "%\"class.Texture2D<vector<float, 4> >\""
TexArray  == 4
EntryMeta == "!9 = !{void ()* @main, !\"main\", null, !3, null}\n"
LibCall   == "  %1 = call %dx.types.Handle @dx.op.createHandleForLib.g_Tex(i32 160, %g_Tex %2)\n"

\* The declarations of g_Tex (a texture array) and Constants (a cbuffer)
TexDecl(rt, bind) ==
    [md |-> 5, id |-> 0, type |-> TexType, arr |-> TexArray,
     sym |-> IF rt THEN "@g_Tex" ELSE "undef", named |-> rt, name |-> "g_Tex",
     space |-> 0, bind |-> bind, count |-> TexArray, sit |-> "D3D_SIT_TEXTURE"]

CBDecl(rt) ==
    [md |-> 7, id |-> 0, type |-> "%Constants", arr |-> 1,
     sym |-> IF rt THEN "@Constants" ELSE "undef", named |-> TRUE, name |-> "Constants",
     space |-> 0, bind |-> 0, count |-> 1, sit |-> "D3D_SIT_CBUFFER"]

\* createHandle calls of a general shader: one with a literal index into
\* g_Tex (in the kind "far" the index 0xFFFFFFFE of an unbounded array, which
\* the disassembler prints as i32 -2), the calls that index g_Tex
\* dynamically (by an add with the literal on the right or on the left, by
\* one add for two calls, by an add without a literal, by a value that no
\* add defines), and one for Constants
TexHandle(res, idx) == [op |-> "handle", res |-> res, cls |-> 0, range |-> 0, idx |-> idx]

DynamicCalls(dyn, bind) ==
    CASE dyn \in {"none", "far", "dup"} -> <<>>
      [] dyn = "right" -> << [op |-> "add", var |-> "%22", a |-> "%17", b |-> to_string(bind + 1)],
                             TexHandle(2, "%22") >>
      [] dyn = "left"  -> << [op |-> "add", var |-> "%22", a |-> to_string(bind + 1), b |-> "%17"],
                             TexHandle(2, "%22") >>
      [] dyn = "twice" -> << [op |-> "add", var |-> "%22", a |-> "%17", b |-> to_string(bind + 1)],
                             TexHandle(2, "%22"), TexHandle(3, "%22") >>
      [] dyn = "nolit" -> << [op |-> "add", var |-> "%22", a |-> "%17", b |-> "%18"],
                             TexHandle(2, "%22") >>
      [] dyn = "noadd" -> << TexHandle(2, "%22") >>

DynKinds == {"none", "right", "left", "twice", "far", "dup", "nolit", "noadd"}

\* The declarations of the textures of a general shader; in the kind "dup" a
\* second record, of id 1, declares the same register range as the first
TexDecls(bind, dyn) ==
    IF dyn = "dup"
    THEN << TexDecl(FALSE, bind), [TexDecl(FALSE, bind) EXCEPT !.md = 8, !.id = 1] >>
    ELSE << TexDecl(FALSE, bind) >>

GeneralShader(bind, dyn) ==
    [ShType |-> 0,
     body   |-> << [TexHandle(1, IF dyn = "far" THEN I32Str(UINT_MAX - 1)
                                    ELSE to_string(bind + 2))
                        EXCEPT !.range = IF dyn = "dup" THEN 1 ELSE 0] >>
                    \o DynamicCalls(dyn, bind)
                    \o << [op |-> "handle", res |-> 4, cls |-> 2, range |-> 0, idx |-> "0"],
                          [op |-> "text", text |-> EntryMeta] >>,
     decls  |-> TexDecls(bind, dyn) \o << CBDecl(FALSE) >>]

\* Texts in which the generic scan finds a name literal that is not the one
\* of a resource declaration, one for each place where the scan gives a
\* candidate up
Clutter(kind) ==
    CASE kind = "unterminated" -> "!2 = !{i32 1, !\"dx.ver\"}\n"
      [] kind = "norecord"     -> "  call void @f(i32 1, !\"tag\")\n"
      [] kind = "idend"        -> "!2 = !{i32 1}\n  call void @f(i32 1, !\"tag\")\n"
      [] kind = "notype"       -> "!2 = !{i32 6, !\"g_Tex\", i32 3, i32 0}\n"
      [] kind = "badtype"      -> "!2 = !{i32 0, %struct.Payload* undef, !\"p\", i32 0, i32 0}\n"
      [] kind = "nofields"     -> "!2 = !{i32 0, " \o TexType \o "* undef, !\"t\", null, null}\n"
      [] kind = "nodigits"     -> "!2 = !{i32 0, " \o TexType \o "* undef, !\"t\", i32 undef, i32 0}\n"

ClutterKinds ==
    {"unterminated", "norecord", "idend", "notype", "badtype", "nofields", "nodigits"}

\* A general shader whose text starts with such a text
ClutterShader(kind) ==
    [GeneralShader(0, "none") EXCEPT !.body = << [op |-> "text", text |-> Clutter(kind)] >> \o @]

\* A field annotation that precedes the resource records and names a field
\* g_Tex: the first !"g_Tex" of the text, followed by two i32 fields
\*   !3 = !{i32 6, !"g_Tex", i32 3, i32 16}
FieldAnnotation(ann) ==
    IF ann = "none" THEN ""
    ELSE "!3 = !{i32 6, !\"g_Tex\", i32 " \o (IF ann = "space" THEN "3" ELSE "0")
            \o ", i32 16}\n"

AnnKinds == {"none", "space", "binding"}

RayTracingShader(ShType, bind, ann) ==
    [ShType |-> ShType,
     body   |-> << [op |-> "text", text |-> LibCall], [op |-> "text", text |-> EntryMeta],
                   [op |-> "text", text |-> FieldAnnotation(ann)] >>,
     decls  |-> << TexDecl(TRUE, bind), CBDecl(TRUE) >>]

\* The declaration of g_Lut, a second texture, in the register after the
\* last one of g_Tex at t0
LutDecl(rt) ==
    [md |-> 8, id |-> 1, type |-> TexType, arr |-> 1,
     sym |-> IF rt THEN "@g_Lut" ELSE "undef", named |-> rt, name |-> "g_Lut",
     space |-> 0, bind |-> TexArray, count |-> 1, sit |-> "D3D_SIT_TEXTURE"]

\* A shader that declares g_Tex, g_Lut and Constants; the general one has a
\* createHandle call with a literal index for each of them
PairShader(ShType) ==
    IF ShType = 0
    THEN [ShType |-> 0,
          body   |-> << TexHandle(1, "2"),
                        [TexHandle(2, to_string(TexArray)) EXCEPT !.range = 1],
                        [op |-> "handle", res |-> 4, cls |-> 2, range |-> 0, idx |-> "0"],
                        [op |-> "text", text |-> EntryMeta] >>,
          decls  |-> << TexDecl(FALSE, 0), LutDecl(FALSE), CBDecl(FALSE) >>]
    ELSE [ShType |-> ShType,
          body   |-> << [op |-> "text", text |-> LibCall], [op |-> "text", text |-> EntryMeta] >>,
          decls  |-> << TexDecl(TRUE, 0), LutDecl(TRUE), CBDecl(TRUE) >>]

PairShaders == {PairShader(0), PairShader(7)}

\* A general shader whose createHandle call for g_Tex has the resource class
\* operand 4, which is none of SRV, UAV, CBV and Sampler
\*   %1 = call %dx.types.Handle @dx.op.createHandle(i32 57, i8 4, i32 0, i32 2, i1 false)
ClassShader == [GeneralShader(0, "none") EXCEPT !.body[1].cls = 4]

TexBinds == {0, 1}
RTTypes  == {7, 12}

Shaders ==
    {GeneralShader(b, d) : b \in TexBinds, d \in DynKinds}
        \cup {RayTracingShader(t, b, a) : t \in RTTypes, b \in TexBinds, a \in AnnKinds}
        \cup {ClutterShader(k) : k \in ClutterKinds}

\* What reflection reports for a shader: its declared resources, and g_Odd,
\* a resource of a D3D_SHADER_INPUT_TYPE the remap does not know
ReflectionOf(sh) ==
    [Name \in {sh.decls[k].name : k \in 1..Len(sh.decls)} \cup {"g_Odd"} |->
        IF Name = "g_Odd"
        THEN [Type |-> "D3D_SIT_UNKNOWN", BindPoint |-> 0, Space |-> 0]
        ELSE LET d == CHOOSE d \in {sh.decls[k] : k \in 1..Len(sh.decls)} : d.name = Name
             IN  [Type |-> d.sit, BindPoint |-> d.bind, Space |-> d.space]]

\* The binding requests: TResourceBindingMap, name -> BindInfo
TexRequests ==
    {[BindPoint |-> b, Space |-> 1, ArraySize |-> a] : b \in {0, 12}, a \in {TexArray, UINT_MAX}}

CBRequests == {[BindPoint |-> 2, Space |-> 0, ArraySize |-> 1]}

ExtraNames == {"g_Unused", "g_Odd"}

ExtraRequest == [BindPoint |-> 3, Space |-> 0, ArraySize |-> 1]

\* The function that is f on its domain extended by Name -> Bind
With(f, Name, Bind) ==
    [n \in DOMAIN f \cup {Name} |-> IF n = Name THEN Bind ELSE f[n]]

Empty == [n \in {} |-> 0]

ResourceMaps ==
    LET tex    == {Empty} \cup {With(Empty, "g_Tex", t) : t \in TexRequests}
        withCB == tex \cup {With(m, "Constants", c) : m \in tex, c \in CBRequests}
    IN  withCB \cup {With(m, n, ExtraRequest) : m \in withCB, n \in ExtraNames}

\* The requests for a shader of g_Tex and g_Lut: each texture stays where it
\* is declared, or goes where the other one is declared, or g_Lut goes to a
\* register that neither has
PairMaps ==
    {With(With(With(Empty, "g_Tex", [BindPoint |-> t, Space |-> 0, ArraySize |-> TexArray]),
               "g_Lut", [BindPoint |-> l, Space |-> 0, ArraySize |-> 1]),
          "Constants", [BindPoint |-> 0, Space |-> 0, ArraySize |-> 1]) :
        t \in {0, TexArray}, l \in {TexArray, 0, 2 * TexArray + 1}}

Targets == {"Direct3D12", "Vulkan"}

(***************************************************************************)
(* The state of one compiler object and of the call in progress on it.     *)
(***************************************************************************)
VARIABLES
    op,                 \* the function called: "Remap", "Compile", "IsDXILBytecode", "Load"
    D3D12_SUPPORTED,    \* the build flag of the same name
    m_Target,           \* DXCompilerTarget of the compiler object
    Shader,             \* the shader behind pSrcBytecode
    ResourceMap,        \* the ResourceMap argument
    pc,                 \* the statement the call is at
    m_IsInitialized,
    m_pCreateInstance,  \* "null" or "DxcCreateInstance"
    pShaderReflection,  \* "null" or "reflection"
    ExtResMap,          \* ExtResourceMap: name of the request -> ResourceExtendedInfo
    DXIL,               \* dxilAsm
    pos,                \* the cursor of the running patch pass
    rtTodo,             \* the requests PatchResourceDeclarationRT has yet to visit
    compiled,           \* the blob the assembler or the compiler produced: {} is null
    Result,             \* the value returned, read once pc = "Done"; FALSE until then
    DstByteCode,        \* *ppDstByteCode (*ppBlobOut): {} until written
    calls,              \* history: the stages entered, in order
    failed,             \* history: the stage that failed, "" if none
    handleLog           \* history: the calls of ReplaceBindPoint

\* IsDXILBytecode(pBytecode, Size)
VARIABLES
    Bytecode,           \* the buffer at pBytecode
    SizeTBits,          \* the width of size_t and of a pointer in the build
    part,               \* the loop counter
    reads               \* history: the spans read, relative to pBytecode, as [off, len]

probeVars == <<Bytecode, SizeTBits, part, reads>>

\* Threads that call Load, IsLoaded and GetMaxShaderModel on one object
VARIABLES
    callee,             \* thread -> the member function it calls
    at,                 \* thread -> the statement it is at
    m_Guard,            \* the set of the threads that hold the mutex
    m_MajorVer,
    m_MinorVer,
    m_MaxShaderModel,
    observed,           \* thread -> what its call returned
    loads               \* history: the threads that called DXCompilerBase::Load

threadVars == <<callee, at, m_Guard, m_MajorVer, m_MinorVer, m_MaxShaderModel, observed, loads>>

\* The locals of the scanning loops inside the patch passes, for the runs that
\* follow one loop iteration by iteration
VARIABLES
    EndOfResTypeRecord, \* the limit of the loop that skips an array declaration
    SrcIndexStr,        \* the index variable whose uses are counted
    IndexVarUsageCount

scanVars == <<EndOfResTypeRecord, SrcIndexStr, IndexVarUsageCount>>

remapVars ==
    <<op, D3D12_SUPPORTED, m_Target, Shader, ResourceMap, pc, m_IsInitialized,
      m_pCreateInstance, pShaderReflection, ExtResMap, DXIL, pos, rtTodo, compiled,
      Result, DstByteCode, calls, failed, handleLog>>

vars == <<remapVars, probeVars, threadVars, scanVars>>

\* What a call of RemapResourceBindings or of Compile never changes
inputs ==
    <<op, D3D12_SUPPORTED, m_Target, Shader, ResourceMap, probeVars, threadVars, scanVars>>

\* The text the disassembler prints for pSrcBytecode
Disasm == RenderShader(Shader)

RemapInit ==
    /\ op = "Remap"
    /\ \/ /\ D3D12_SUPPORTED = TRUE
          /\ m_Target \in Targets
          /\ Shader \in Shaders
          /\ ResourceMap \in ResourceMaps
       \/ /\ D3D12_SUPPORTED = TRUE
          /\ m_Target \in Targets
          /\ Shader \in PairShaders \cup {ClassShader}
          /\ ResourceMap \in PairMaps
       \/ /\ D3D12_SUPPORTED = FALSE
          /\ m_Target = "Vulkan"
          /\ Shader = GeneralShader(0, "none")
          /\ ResourceMap = Empty

CompileInit ==
    /\ op = "Compile"
    /\ D3D12_SUPPORTED \in BOOLEAN
    /\ m_Target \in Targets
    /\ Shader = GeneralShader(0, "none")
    /\ ResourceMap = Empty

CallInit ==
    /\ pc = "Start"
    /\ m_IsInitialized = FALSE
    /\ m_pCreateInstance = "null"
    /\ pShaderReflection = "null"
    /\ ExtResMap = Empty
    /\ DXIL = ""
    /\ pos = 0
    /\ rtTodo = {}
    /\ compiled = {}
    /\ Result = FALSE
    /\ DstByteCode = {}
    /\ calls = <<>>
    /\ failed = ""
    /\ handleLog = <<>>

\* return false after the failure of a stage
Fail(stage) ==
    /\ pc' = "Done"
    /\ Result' = FALSE
    /\ failed' = stage

Enter(stage) == calls' = Append(calls, stage)

\* #else return false  (RemapResourceBindings without D3D12_SUPPORTED)
RemapUnsupported ==
    /\ pc = "Start" /\ op = "Remap" /\ ~D3D12_SUPPORTED
    /\ pc' = "Done" /\ Result' = FALSE
    /\ UNCHANGED <<inputs, m_IsInitialized, m_pCreateInstance, pShaderReflection, ExtResMap,
                   DXIL, pos, rtTodo, compiled, DstByteCode, calls, failed, handleLog>>

\* auto CreateInstance = GetCreateInstaceProc(); if (CreateInstance == nullptr) return false;
\* Load() runs here for the first time: the library loads, or it does not
GetCreateInstaceProc ==
    /\ pc = "Start" /\ (op = "Compile" \/ D3D12_SUPPORTED)
    /\ Enter("Load")
    /\ m_IsInitialized' = TRUE
    /\ \E proc \in {"null", "DxcCreateInstance"} :
        /\ m_pCreateInstance' = proc
        /\ IF proc = "null" THEN Fail("Load")
           ELSE /\ pc' = IF op = "Remap" THEN "CreateInstances" ELSE "CompileSource"
                /\ UNCHANGED <<Result, failed>>
    /\ UNCHANGED <<inputs, pShaderReflection, ExtResMap, DXIL, pos, rtTodo, compiled,
                   DstByteCode, handleLog>>

\* CreateInstance(CLSID_DxcLibrary / CLSID_DxcAssembler / CLSID_DxcCompiler)
CreateInstances ==
    /\ pc = "CreateInstances"
    /\ Enter("CreateInstance")
    /\ \E hr \in {"S_OK", "E_FAIL"} :
        IF hr = "E_FAIL" THEN Fail("CreateInstance")
        ELSE pc' = "Disassemble" /\ UNCHANGED <<Result, failed>>
    /\ UNCHANGED <<inputs, m_IsInitialized, m_pCreateInstance, pShaderReflection, ExtResMap,
                   DXIL, pos, rtTodo, compiled, DstByteCode, handleLog>>

\* hr = compiler->Disassemble(pSrcBytecode, &disasm)
Disassemble ==
    /\ pc = "Disassemble"
    /\ Enter("Disassemble")
    /\ \E hr \in {"S_OK", "E_FAIL"} :
        IF hr = "E_FAIL" THEN Fail("Disassemble")
        ELSE pc' = "Reflect" /\ UNCHANGED <<Result, failed>>
    /\ UNCHANGED <<inputs, m_IsInitialized, m_pCreateInstance, pShaderReflection, ExtResMap,
                   DXIL, pos, rtTodo, compiled, DstByteCode, handleLog>>

\* GetD3D12ShaderReflection(pSrcBytecode, &pShaderReflection): it catches
\* every exception itself and then leaves *ppShaderReflection null, so the
\* catch block of RemapResourceBindings is never entered
GetD3D12ShaderReflection ==
    /\ pc = "Reflect"
    /\ Enter("GetD3D12ShaderReflection")
    /\ \E r \in {"null", "reflection"} :
        /\ pShaderReflection' = r
        /\ failed' = IF r = "null" THEN "GetD3D12ShaderReflection" ELSE failed
    /\ pc' = "GetDesc"
    /\ UNCHANGED <<inputs, m_IsInitialized, m_pCreateInstance, ExtResMap,
                   DXIL, pos, rtTodo, compiled, Result, DstByteCode, handleLog>>

\* pShaderReflection->GetDesc(&ShDesc): a call through a null pointer when
\* the reflection was not obtained, which ends the process
GetDesc ==
    /\ pc = "GetDesc"
    /\ pc' = IF pShaderReflection = "null" THEN "Crashed" ELSE "BuildMap"
    /\ UNCHANGED <<inputs, m_IsInitialized, m_pCreateInstance, pShaderReflection, ExtResMap,
                   DXIL, pos, rtTodo, compiled, Result, DstByteCode, calls, failed, handleLog>>

\* The requests reflection has an entry for:
\* GetResourceBindingDescByName(Name, &ResDesc) == S_OK
Reflected == DOMAIN ResourceMap \cap DOMAIN ReflectionOf(Shader)

\* The entry the map building loop fills from ResDesc
ExtOf(ResDesc) ==
    [SrcBindPoint |-> ResDesc.BindPoint, SrcSpace |-> ResDesc.Space,
     RecordId |-> UINT_MAX, Type |-> InputTypeToResType(ResDesc.Type)]

\* A map building that also returns false for a request reflection has no
\* entry for: the faulty variant that the properties of skipped requests
\* rule out
BuildExtResourceMapStrict ==
    /\ pc = "BuildMap"
    /\ Enter("BuildExtResourceMap")
    /\ IF DOMAIN ResourceMap # Reflected
       THEN /\ Fail("BuildExtResourceMap")
            /\ UNCHANGED <<ExtResMap, DXIL>>
       ELSE /\ ExtResMap' = [Name \in Reflected |-> ExtOf(ReflectionOf(Shader)[Name])]
            /\ DXIL' = Disasm
            /\ pc' = "PatchDXIL"
            /\ UNCHANGED <<Result, failed>>
    /\ UNCHANGED <<inputs, m_IsInitialized, m_pCreateInstance, pShaderReflection,
                   pos, rtTodo, compiled, DstByteCode, handleLog>>

\* for (auto& NameAndBinding : ResourceMap) ... ExtResourceMap[&NameAndBinding]
\* then dxilAsm.assign(disasm)
BuildExtResourceMap ==
    /\ pc = "BuildMap"
    /\ Enter("BuildExtResourceMap")
    /\ IF \E Name \in Reflected :
            InputTypeToResType(ReflectionOf(Shader)[Name].Type) = RES_TYPE_INVALID
       THEN /\ Fail("BuildExtResourceMap")
            /\ UNCHANGED <<ExtResMap, DXIL>>
       ELSE /\ ExtResMap' = [Name \in Reflected |-> ExtOf(ReflectionOf(Shader)[Name])]
            /\ DXIL' = Disasm
            /\ pc' = "PatchDXIL"
            /\ UNCHANGED <<Result, failed>>
    /\ UNCHANGED <<inputs, m_IsInitialized, m_pCreateInstance, pShaderReflection,
                   pos, rtTodo, compiled, DstByteCode, handleLog>>

\* A PatchDXIL that takes the ray-tracing branch whatever the shader type is
PatchDXILRayTracing ==
    /\ pc = "PatchDXIL"
    /\ Enter("PatchResourceDeclarationRT")
    /\ pc' = "PatchResourceDeclarationRT"
    /\ rtTodo' = DOMAIN ResourceMap
    /\ pos' = 0
    /\ UNCHANGED <<inputs, m_IsInitialized, m_pCreateInstance, pShaderReflection, ExtResMap,
                   DXIL, compiled, Result, DstByteCode, failed, handleLog>>

\* A PatchDXIL that takes the generic path for every shader: the faulty
\* variant that the properties of the choice of the passes rule out
PatchDXILGeneric ==
    /\ pc = "PatchDXIL"
    /\ Enter("PatchResourceDeclaration")
    /\ pc' = "PatchResourceDeclaration"
    /\ pos' = 0
    /\ UNCHANGED <<inputs, m_IsInitialized, m_pCreateInstance, pShaderReflection, ExtResMap,
                   DXIL, rtTodo, compiled, Result, DstByteCode, failed, handleLog>>

\* PatchDXIL: if ((ShaderType & SHADER_TYPE_ALL_RAY_TRACING) != 0)
\*     PatchResourceDeclarationRT(...); else PatchResourceDeclaration(...); ...
PatchDXIL ==
    /\ pc = "PatchDXIL"
    /\ IF IsRayTracingShType(Shader.ShType)
       THEN /\ Enter("PatchResourceDeclarationRT")
            /\ pc' = "PatchResourceDeclarationRT"
            /\ rtTodo' = DOMAIN ResourceMap
       ELSE /\ Enter("PatchResourceDeclaration")
            /\ pc' = "PatchResourceDeclaration"
            /\ UNCHANGED rtTodo
    /\ pos' = 0
    /\ UNCHANGED <<inputs, m_IsInitialized, m_pCreateInstance, pShaderReflection, ExtResMap,
                   DXIL, compiled, Result, DstByteCode, failed, handleLog>>


\* The entry of ExtResMap for a request, default constructed when absent
ExtAt(Name) == IF Name \in DOMAIN ExtResMap THEN ExtResMap[Name] ELSE DefaultExt

\* The effect of one iteration of PatchResourceDeclarationRT with result s
DeclRTIteration(Name, s) ==
    /\ rtTodo' = rtTodo \ {Name}
    /\ ExtResMap' = With(ExtResMap, Name,
            IF s.setId THEN [ExtAt(Name) EXCEPT !.RecordId = s.RecordId] ELSE ExtAt(Name))
    /\ DXIL' = s.DXIL
    /\ IF s.kind = "throw" THEN Fail("PatchResourceDeclarationRT")
       ELSE UNCHANGED <<pc, Result, failed>>

\* One iteration of for (auto& ResPair : ResourceMap) in
\* PatchResourceDeclarationRT, or the return of PatchDXIL after the last one
PatchResourceDeclarationRT ==
    /\ pc = "PatchResourceDeclarationRT"
    /\ IF rtTodo = {}
       THEN /\ pc' = "Assemble"
            /\ UNCHANGED <<ExtResMap, DXIL, rtTodo, Result, failed>>
       ELSE \E Name \in rtTodo :
                \E s \in {DeclRTStep(DXIL, Name, ResourceMap[Name], ExtAt(Name))} :
                    DeclRTIteration(Name, s)
    /\ UNCHANGED <<inputs, m_IsInitialized, m_pCreateInstance, pShaderReflection,
                   pos, compiled, DstByteCode, calls, handleLog>>

\* "Remap bindings" with result r for the entry of the request Name
DeclRemapped(c, Name, r) ==
    /\ ExtResMap' = [ExtResMap EXCEPT ![Name].RecordId = c.RecordId]
    /\ DXIL' = r.DXIL
    /\ pos' = r.pos
    /\ IF r.threw THEN Fail("PatchResourceDeclaration")
       ELSE UNCHANGED <<pc, Result, failed>>
    /\ UNCHANGED calls

\* The effect of one pass of the loop of PatchResourceDeclaration whose scan
\* gave c
DeclIteration(c) ==
    IF ~(pos < Len(DXIL)) \/ c.kind = "break"
    THEN /\ pc' = "PatchResourceHandle"
         /\ pos' = 0
         /\ Enter("PatchResourceHandle")
         /\ UNCHANGED <<ExtResMap, DXIL, Result, failed>>
    ELSE IF c.kind = "continue"
    THEN /\ pos' = c.pos
         /\ UNCHANGED <<pc, ExtResMap, DXIL, Result, failed, calls>>
    ELSE IF c.kind = "throw" \/ DeclMatches(c, ExtResMap) = {}
    THEN /\ Fail("PatchResourceDeclaration")
         /\ UNCHANGED <<ExtResMap, DXIL, pos, calls>>
    ELSE \E Name \in DeclMatches(c, ExtResMap) :
            \E r \in {DeclRemap(DXIL, c, Name, ResourceMap[Name], ExtResMap[Name])} :
                DeclRemapped(c, Name, r)

\* One iteration of for (size_t pos = 0; pos < DXIL.size();) in
\* PatchResourceDeclaration, or the call of PatchResourceHandle after it
PatchResourceDeclaration ==
    /\ pc = "PatchResourceDeclaration"
    /\ \E c \in {DeclScan(DXIL, pos, ExtResMap)} : DeclIteration(c)
    /\ UNCHANGED <<inputs, m_IsInitialized, m_pCreateInstance, pShaderReflection,
                   rtTodo, compiled, DstByteCode, handleLog>>

\* What handleLog keeps of a call of ReplaceBindPoint: Name is the request it
\* resolved to ("" when it found none) and NewIndex the literal it wrote
LogEntry(h, SrcIndex, Name, NewIndex) ==
    [ResClass |-> h.ResClass, RangeId |-> h.RangeId, SrcIndex |-> SrcIndex,
     ArgStart |-> h.ArgStart, dynamic |-> h.dynamic, Name |-> Name, NewIndex |-> NewIndex]

\* The end of ReplaceBindPoint: DXIL.replace(IndexStartPos, IndexEndPos, NewIndexStr);
\* then pos = IndexEndPos in the loop
ReplaceIndex(h, SrcIndex, Name, NewIndex) ==
    /\ DXIL' = Replace(DXIL, h.ArgStart, h.ArgEnd - h.ArgStart, to_string(NewIndex))
    /\ pos' = h.IndexEndPos
    /\ handleLog' = Append(handleLog, LogEntry(h, SrcIndex, Name, NewIndex))
    /\ UNCHANGED <<pc, Result, failed>>

\* The search of ReplaceBindPoint, which stops at one of the entries found
ResolveBindPoint(h, SrcIndex, found) ==
    IF found = {}
    THEN /\ Fail("PatchResourceHandle")
         /\ handleLog' = Append(handleLog, LogEntry(h, SrcIndex, "", 0))
         /\ UNCHANGED <<DXIL, pos>>
    ELSE \E Name \in found :
            ReplaceIndex(h, SrcIndex, Name,
                         NewBindIndex(SrcIndex, ExtResMap[Name].SrcBindPoint,
                                      ResourceMap[Name].BindPoint))

\* The ReplaceBindPoint lambda; SrcIndex is the result of std::stoi
ReplaceBindPoint(h, SrcIndex) ==
    IF StoiThrows(SrcIndex)
    THEN /\ Fail("PatchResourceHandle")
         /\ UNCHANGED <<DXIL, pos, handleLog>>
    ELSE \E ResType \in ResClassToTypeAt(h.ResClass) :
            \E found \in {HandleMatches(h.RangeId, ResType, ToU32(SrcIndex.val),
                                        ResourceMap, ExtResMap)} :
                ResolveBindPoint(h, ToU32(SrcIndex.val), found)

\* The effect of one pass of the loop of PatchResourceHandle whose scan gave h
HandleIteration(h) ==
    IF ~(pos < Len(DXIL)) \/ h.kind = "break"
    THEN /\ pc' = "Assemble"
         /\ UNCHANGED <<DXIL, pos, Result, failed, handleLog>>
    ELSE IF h.kind = "throw"
    THEN /\ Fail("PatchResourceHandle")
         /\ UNCHANGED <<DXIL, pos, handleLog>>
    ELSE \E SrcIndex \in {Stoi(Substr(DXIL, h.ArgStart, h.ArgEnd - h.ArgStart))} :
            ReplaceBindPoint(h, SrcIndex)

\* One iteration of for (size_t pos = 0; pos < DXIL.size();) in
\* PatchResourceHandle, or the return of PatchDXIL after it
PatchResourceHandle ==
    /\ pc = "PatchResourceHandle"
    /\ \E h \in {HandleScan(DXIL, pos)} : HandleIteration(h)
    /\ UNCHANGED <<inputs, m_IsInitialized, m_pCreateInstance, pShaderReflection, ExtResMap,
                   rtTodo, compiled, DstByteCode, calls>>

\* library->CreateBlobWithEncodingFromPinned, assembler->AssembleToContainer,
\* dxilResult->GetStatus and dxilResult->GetResult
AssembleOutcomes == {"blob failed", "assemble failed", "status failed", "no result", "ok"}

\* An assembling whose failure does not end the call: the faulty variant that
\* the properties of the order of the stages rule out
AssembleUnchecked ==
    /\ pc = "Assemble"
    /\ Enter("AssembleToContainer")
    /\ \E out \in AssembleOutcomes :
        /\ compiled' = {[dxil |-> DXIL, validated |-> FALSE]}
        /\ pc' = "ValidateAndSign"
        /\ failed' = IF out = "ok" THEN failed ELSE "AssembleToContainer"
        /\ UNCHANGED Result
    /\ UNCHANGED <<inputs, m_IsInitialized, m_pCreateInstance, pShaderReflection, ExtResMap,
                   DXIL, pos, rtTodo, DstByteCode, handleLog>>

\* An assembling that returns the blob without validation when the target is
\* not Direct3D12: the faulty variant that the properties of the output rule out
AssembleForTarget ==
    /\ pc = "Assemble"
    /\ Enter("AssembleToContainer")
    /\ compiled' = {[dxil |-> DXIL, validated |-> FALSE]}
    /\ IF m_Target = "Direct3D12"
       THEN pc' = "ValidateAndSign" /\ UNCHANGED <<Result, DstByteCode>>
       ELSE pc' = "Done" /\ Result' = TRUE /\ DstByteCode' = compiled'
    /\ UNCHANGED <<inputs, m_IsInitialized, m_pCreateInstance, pShaderReflection, ExtResMap,
                   DXIL, pos, rtTodo, failed, handleLog>>

Assemble ==
    /\ pc = "Assemble"
    /\ Enter("AssembleToContainer")
    /\ \E out \in AssembleOutcomes :
        IF out = "ok"
        THEN /\ compiled' = {[dxil |-> DXIL, validated |-> FALSE]}
             /\ pc' = "ValidateAndSign"
             /\ UNCHANGED <<Result, failed>>
        ELSE /\ Fail("AssembleToContainer")
             /\ UNCHANGED compiled
    /\ UNCHANGED <<inputs, m_IsInitialized, m_pCreateInstance, pShaderReflection, ExtResMap,
                   DXIL, pos, rtTodo, DstByteCode, handleLog>>

\* bool ValidateAndSign(CreateInstance, library, compiled, ppBlobOut): the
\* validator edits the blob in place, and *ppBlobOut is written on success only
ValidateOutcomes == {"no validator", "validate failed", "status failed", "no result", "ok"}

ValidateAndSign ==
    /\ pc = "ValidateAndSign"
    /\ Enter("ValidateAndSign")
    /\ \E out \in ValidateOutcomes :
        IF out = "ok"
        THEN /\ DstByteCode' = {[blob EXCEPT !.validated = TRUE] : blob \in compiled}
             /\ Result' = TRUE
             /\ pc' = "Done"
             /\ UNCHANGED failed
        ELSE /\ Fail("ValidateAndSign")
             /\ UNCHANGED DstByteCode
    /\ UNCHANGED <<inputs, m_IsInitialized, m_pCreateInstance, pShaderReflection, ExtResMap,
                   DXIL, pos, rtTodo, compiled, handleLog>>

\* Compile(Attribs) up to result->GetResult(&compiled): the library, the
\* compiler, the source blob, compiler->Compile and its status
CompileOutcomes == {"no instance", "no source blob", "compile failed", "no result", "ok"}

CompileSource ==
    /\ pc = "CompileSource"
    /\ Enter("Compile")
    /\ \E out \in CompileOutcomes :
        IF out = "ok"
        THEN /\ compiled' = {[dxil |-> Disasm, validated |-> FALSE]}
             /\ pc' = "CompileTarget"
             /\ UNCHANGED <<Result, failed>>
        ELSE /\ Fail("Compile")
             /\ UNCHANGED compiled
    /\ UNCHANGED <<inputs, m_IsInitialized, m_pCreateInstance, pShaderReflection, ExtResMap,
                   DXIL, pos, rtTodo, DstByteCode, handleLog>>

\* if (m_Target == DXCompilerTarget::Direct3D12) return ValidateAndSign(...);
\* *Attribs.ppBlobOut = compiled.Detach(); return true;
CompileTarget ==
    /\ pc = "CompileTarget"
    /\ IF m_Target = "Direct3D12"
       THEN /\ pc' = "ValidateAndSign"
            /\ UNCHANGED <<Result, DstByteCode>>
       ELSE /\ DstByteCode' = compiled
            /\ Result' = TRUE
            /\ pc' = "Done"
    /\ UNCHANGED <<inputs, m_IsInitialized, m_pCreateInstance, pShaderReflection, ExtResMap,
                   DXIL, pos, rtTodo, compiled, calls, failed, handleLog>>

(***************************************************************************)
(* IsDXILBytecode.  The buffer is a record: Size, the header fields        *)
(* HeaderFourCC, Major and PartCount, the words of the offset table that   *)
(* follow the header, and the FourCC of the part header at each offset     *)
(* that holds one.  Addresses are numbers; pBytecode is at DataBegin.      *)
(***************************************************************************)
SizeofContainerHeader == 32
SizeofUint32          == 4
SizeofPartHeader      == 8

DataBegin == UintMod \div 4

\* size_t and pointer arithmetic wrap at the width of the build
SizeT(x) == x % Pow2(SizeTBits)

DataEnd == DataBegin + Bytecode.Size

\* A span [off, off + len) relative to pBytecode lies in the buffer
InBuffer(off, len) == off >= 0 /\ off + len <= Bytecode.Size

\* The offset, relative to pBytecode, of the address addr
OffsetOf(addr) == addr - DataBegin

\* The values a read can yield: what the buffer holds there, anything when
\* the span is not in the buffer or holds a word the fixture does not fix
TableWords(k) ==
    IF InBuffer(SizeofContainerHeader + SizeofUint32 * k, SizeofUint32)
        /\ k + 1 \in DOMAIN Bytecode.PartOffsets
    THEN {Bytecode.PartOffsets[k + 1]}
    ELSE {SizeofContainerHeader + SizeofUint32, UINT_MAX - SizeofPartHeader + 1}

PartFourCCs(off) ==
    IF InBuffer(off, SizeofPartHeader)
    THEN {IF off \in DOMAIN Bytecode.Parts THEN Bytecode.Parts[off] ELSE "other"}
    ELSE {"DXIL", "other"}

ProbeSizes   == {0, 16, 32, 40, 56}
ProbeCounts  == {0, 1, 2, UintMod \div SizeofUint32, UINT_MAX}
ProbeOffsets == {40, 48, UINT_MAX - 55, UINT_MAX - SizeofPartHeader + 1}
ProbeHeaders == {<<"DXBC", 1>>, <<"other", 1>>, <<"DXBC", 0>>}
ProbeParts   == {[o \in {40, 48} |-> IF o = d THEN "DXIL" ELSE "other"] : d \in {0, 40, 48}}

Bytecodes ==
    {[Size |-> s, HeaderFourCC |-> h[1], Major |-> h[2], PartCount |-> n,
      PartOffsets |-> <<a, b>>, Parts |-> p] :
        s \in ProbeSizes, h \in ProbeHeaders, n \in ProbeCounts,
        a \in ProbeOffsets, b \in ProbeOffsets, p \in ProbeParts}

ProbeInit ==
    /\ op = "IsDXILBytecode"
    /\ Bytecode \in Bytecodes
    /\ SizeTBits \in {UintBits, 2 * UintBits}
    /\ part = 0
    /\ reads = {}

\* What IsDXILBytecode never changes
probeRest ==
    <<op, D3D12_SUPPORTED, m_Target, Shader, ResourceMap, m_IsInitialized, m_pCreateInstance,
      pShaderReflection, ExtResMap, DXIL, pos, rtTodo, compiled, DstByteCode, calls, failed,
      handleLog, threadVars, scanVars>>

ProbeReturn(value) == pc' = "Done" /\ Result' = value

\* From the first bounds check to ptr += sizeof(hlsl::DxilContainerHeader)
ProbeHeader ==
    /\ op = "IsDXILBytecode" /\ pc = "Start"
    /\ IF SizeT(DataBegin + SizeofContainerHeader) > DataEnd
       THEN ProbeReturn(FALSE) /\ UNCHANGED reads
       ELSE /\ reads' = reads \cup {[off |-> 0, len |-> SizeofContainerHeader]}
            /\ IF Bytecode.HeaderFourCC # "DXBC" \/ Bytecode.Major # 1
               THEN ProbeReturn(FALSE)
               ELSE pc' = "Table" /\ UNCHANGED Result
    /\ UNCHANGED <<probeRest, Bytecode, SizeTBits, part>>

\* if (ptr + sizeof(uint32_t) * ContainerHeader.PartCount > data_end) return false;
ProbeTable ==
    /\ op = "IsDXILBytecode" /\ pc = "Table"
    /\ IF SizeT(DataBegin + SizeofContainerHeader + SizeT(SizeofUint32 * Bytecode.PartCount))
            > DataEnd
       THEN ProbeReturn(FALSE)
       ELSE pc' = "Part" /\ UNCHANGED Result
    /\ UNCHANGED <<probeRest, Bytecode, SizeTBits, part, reads>>

\* A read of len bytes at off that is outside the buffer may fault
ProbeFault(off, len) ==
    /\ ~InBuffer(off, len)
    /\ reads' = reads \cup {[off |-> off, len |-> len]}
    /\ pc' = "Crashed"
    /\ UNCHANGED <<Result, part>>

\* const hlsl::DxilPartHeader& PartHeader at ptr = data_begin + Offset
ProbeFourCC(off) ==
    \/ /\ reads' = reads \cup
                {[off |-> SizeofContainerHeader + SizeofUint32 * part, len |-> SizeofUint32],
                 [off |-> off, len |-> SizeofPartHeader]}
       /\ \E PartFourCC \in PartFourCCs(off) :
                IF PartFourCC = "DXIL"
                THEN ProbeReturn(TRUE) /\ UNCHANGED part
                ELSE part' = part + 1 /\ UNCHANGED <<pc, Result>>
    \/ ProbeFault(off, SizeofPartHeader)

\* The body of the loop once PartOffsets[part] has been read as Offset
ProbePartHeader(Offset) ==
    IF SizeT(DataBegin + Offset + SizeofPartHeader) > DataEnd
    THEN /\ ProbeReturn(FALSE)
         /\ reads' = reads \cup {[off |-> SizeofContainerHeader + SizeofUint32 * part,
                                  len |-> SizeofUint32]}
         /\ UNCHANGED part
    ELSE ProbeFourCC(OffsetOf(SizeT(DataBegin + Offset)))

\* One iteration of for (uint32_t part = 0; part < PartCount; ++part), or
\* the return false after the loop
ProbePart ==
    /\ op = "IsDXILBytecode" /\ pc = "Part"
    /\ IF part < Bytecode.PartCount
       THEN \/ \E Offset \in TableWords(part) : ProbePartHeader(Offset)
            \/ ProbeFault(SizeofContainerHeader + SizeofUint32 * part, SizeofUint32)
       ELSE ProbeReturn(FALSE) /\ UNCHANGED <<part, reads>>
    /\ UNCHANGED <<probeRest, Bytecode, SizeTBits>>

(***************************************************************************)
(* Load, and IsLoaded and GetMaxShaderModel, which call it, on threads     *)
(* that share one compiler object.                                         *)
(***************************************************************************)
NumThreads == 2

Threads == 1..NumThreads

\* The public functions a thread calls; all but GetVersion call Load().
\* Compile(ShaderCI, ShaderModel, ...) calls IsLoaded() and then
\* GetMaxShaderModel(), during which its callee is "Compile.MaxSM"
Callees == {"IsLoaded", "GetCreateInstaceProc", "GetMaxShaderModel", "GetVersion", "Compile"}

\* The shader models Compile is asked for; <<0, 0>> is ShaderVersion{}
ShaderModels == {<<0, 0>>, <<5, 1>>, <<6, 0>>, <<6, 3>>, <<6, 7>>}

\* ShaderModel > MaxSM on versions as <<Major, Minor>>
VersionGreater(a, b) == a[1] > b[1] \/ (a[1] = b[1] /\ a[2] > b[2])

\* "validate shader version" in Compile: the model handed to
\* GetHLSLProfileString
ValidatedShaderModel(ShaderModel, MaxSM) ==
    IF ShaderModel = <<0, 0>> THEN MaxSM
    ELSE IF ShaderModel[1] < 6 THEN <<6, 0>>
    ELSE IF VersionGreater(ShaderModel, MaxSM) THEN MaxSM
    ELSE ShaderModel

\* The versions the validator can report, as <<major, minor>>
DxcVersions == {<<1, 0>>, <<1, 2>>, <<1, 4>>, <<1, 5>>, <<1, 7>>}

\* "map known DXC version to maximum SM", on ver = (major << 16) | (minor & 0xFFFF)
MaxShaderModelFor(ver) ==
    CASE ver = 65541 -> <<6, 5>>
      [] ver = 65540 -> <<6, 4>>
      [] ver \in {65539, 65538} -> <<6, 1>>
      [] OTHER -> IF ver > 65541 THEN <<6, 6>> ELSE <<6, 0>>

ThreadInit ==
    /\ callee \in [Threads -> Callees]
    /\ at = [t \in Threads |-> "idle"]
    /\ m_Guard = {}
    /\ m_MajorVer = 0
    /\ m_MinorVer = 0
    /\ m_MaxShaderModel = <<0, 0>>
    /\ observed = [t \in Threads |-> [proc |-> "none", model |-> "none",
                                       major |-> -1, minor |-> -1,
                                       asked |-> <<0, 0>>, profile |-> <<0, 0>>]]
    /\ loads = <<>>

\* What the threads never change
threadRest ==
    <<op, D3D12_SUPPORTED, m_Target, Shader, ResourceMap, pc, pShaderReflection, ExtResMap,
      DXIL, pos, rtTodo, compiled, Result, DstByteCode, calls, failed, handleLog, probeVars,
      scanVars>>

\* return m_pCreateInstance, which releases the lock
LoadReturn(t, proc) ==
    /\ observed' = [observed EXCEPT ![t].proc = proc]
    /\ m_Guard' = {}
    /\ at' = [at EXCEPT ![t] = "loaded"]

\* A thread enters IsLoaded, GetCreateInstaceProc or GetMaxShaderModel, and
\* Load() from there
CallLoad(t) ==
    /\ op = "Load" /\ at[t] = "idle" /\ callee[t] # "GetVersion"
    /\ at' = [at EXCEPT ![t] = "lock"]
    /\ UNCHANGED <<threadRest, callee, m_Guard, m_MajorVer, m_MinorVer, m_MaxShaderModel,
                   observed, loads, m_IsInitialized, m_pCreateInstance>>

\* A lock that is taken whoever holds it: the faulty variant that the
\* properties of the initialisation rule out
LockUnguarded(t) ==
    /\ at[t] = "lock"
    /\ m_Guard' = {t}
    /\ at' = [at EXCEPT ![t] = "check"]
    /\ UNCHANGED <<threadRest, callee, m_MajorVer, m_MinorVer, m_MaxShaderModel,
                   observed, loads, m_IsInitialized, m_pCreateInstance>>

\* std::unique_lock<std::mutex> lock{m_Guard};
Lock(t) ==
    /\ at[t] = "lock" /\ m_Guard = {}
    /\ m_Guard' = {t}
    /\ at' = [at EXCEPT ![t] = "check"]
    /\ UNCHANGED <<threadRest, callee, m_MajorVer, m_MinorVer, m_MaxShaderModel,
                   observed, loads, m_IsInitialized, m_pCreateInstance>>

\* A check that takes a failed load for no load: the faulty variant that the
\* properties of the cached result rule out
CheckInitializedLoaded(t) ==
    /\ at[t] = "check"
    /\ IF m_IsInitialized /\ m_pCreateInstance # "null"
       THEN LoadReturn(t, m_pCreateInstance) /\ UNCHANGED m_IsInitialized
       ELSE /\ m_IsInitialized' = TRUE
            /\ at' = [at EXCEPT ![t] = "load"]
            /\ UNCHANGED <<m_Guard, observed>>
    /\ UNCHANGED <<threadRest, callee, m_MajorVer, m_MinorVer, m_MaxShaderModel,
                   loads, m_pCreateInstance>>

\* if (m_IsInitialized) return m_pCreateInstance; m_IsInitialized = true;
CheckInitialized(t) ==
    /\ at[t] = "check"
    /\ IF m_IsInitialized
       THEN LoadReturn(t, m_pCreateInstance) /\ UNCHANGED m_IsInitialized
       ELSE /\ m_IsInitialized' = TRUE
            /\ at' = [at EXCEPT ![t] = "load"]
            /\ UNCHANGED <<m_Guard, observed>>
    /\ UNCHANGED <<threadRest, callee, m_MajorVer, m_MinorVer, m_MaxShaderModel,
                   loads, m_pCreateInstance>>

\* m_pCreateInstance = DXCompilerBase::Load(m_Target, m_LibName);
LoadLibrary(t) ==
    /\ at[t] = "load"
    /\ loads' = Append(loads, t)
    /\ \E proc \in {"null", "DxcCreateInstance"} :
        /\ m_pCreateInstance' = proc
        /\ IF proc = "null" THEN LoadReturn(t, proc)
           ELSE /\ at' = [at EXCEPT ![t] = "version"]
                /\ UNCHANGED <<m_Guard, observed>>
    /\ UNCHANGED <<threadRest, callee, m_MajorVer, m_MinorVer, m_MaxShaderModel,
                   m_IsInitialized>>

\* The validator is created and asked for IDxcVersionInfo; when both succeed,
\* info->GetVersion(&m_MajorVer, &m_MinorVer)
GetVersionInfo(t) ==
    /\ at[t] = "version"
    /\ \E hr \in {"S_OK", "E_FAIL"} :
        IF hr = "E_FAIL"
        THEN LoadReturn(t, m_pCreateInstance) /\ UNCHANGED <<m_MajorVer, m_MinorVer>>
        ELSE /\ \E ver \in DxcVersions : m_MajorVer' = ver[1] /\ m_MinorVer' = ver[2]
             /\ at' = [at EXCEPT ![t] = "model"]
             /\ UNCHANGED <<m_Guard, observed>>
    /\ UNCHANGED <<threadRest, callee, m_MaxShaderModel, loads, m_IsInitialized,
                   m_pCreateInstance>>

\* switch (ver) ... m_MaxShaderModel = ...; return m_pCreateInstance;
SetMaxShaderModel(t) ==
    /\ at[t] = "model"
    /\ m_MaxShaderModel' = MaxShaderModelFor(m_MajorVer * 65536 + (m_MinorVer % 65536))
    /\ LoadReturn(t, m_pCreateInstance)
    /\ UNCHANGED <<threadRest, callee, m_MajorVer, m_MinorVer, loads, m_IsInitialized,
                   m_pCreateInstance>>

\* After Load(): IsLoaded returns, GetMaxShaderModel reads m_MaxShaderModel
\* ("mutex is not needed here") and returns
ReturnToCaller(t) ==
    /\ at[t] = "loaded" /\ callee[t] \notin {"Compile", "Compile.MaxSM"}
    /\ at' = [at EXCEPT ![t] = "done"]
    /\ observed' = IF callee[t] = "GetMaxShaderModel"
                   THEN [observed EXCEPT ![t].model = m_MaxShaderModel]
                   ELSE observed
    /\ UNCHANGED <<threadRest, callee, m_Guard, m_MajorVer, m_MinorVer, m_MaxShaderModel,
                   loads, m_IsInitialized, m_pCreateInstance>>

\* Compile: if (!IsLoaded()) return; then GetMaxShaderModel(), which calls
\* Load() once more
CompileIsLoaded(t) ==
    /\ at[t] = "loaded" /\ callee[t] = "Compile"
    /\ IF observed[t].proc = "null"
       THEN at' = [at EXCEPT ![t] = "done"] /\ UNCHANGED callee
       ELSE /\ at' = [at EXCEPT ![t] = "lock"]
            /\ callee' = [callee EXCEPT ![t] = "Compile.MaxSM"]
    /\ UNCHANGED <<threadRest, m_Guard, m_MajorVer, m_MinorVer, m_MaxShaderModel,
                   observed, loads, m_IsInitialized, m_pCreateInstance>>

\* Compile: ShaderVersion MaxSM = GetMaxShaderModel(); "validate shader
\* version"; Profile = GetHLSLProfileString(ShaderType, ShaderModel)
CompileValidate(t) ==
    /\ at[t] = "loaded" /\ callee[t] = "Compile.MaxSM"
    /\ \E ShaderModel \in ShaderModels :
          observed' = [observed EXCEPT ![t].model = m_MaxShaderModel,
                                       ![t].asked = ShaderModel,
                                       ![t].profile =
                                           ValidatedShaderModel(ShaderModel, m_MaxShaderModel)]
    /\ at' = [at EXCEPT ![t] = "done"]
    /\ UNCHANGED <<threadRest, callee, m_Guard, m_MajorVer, m_MinorVer, m_MaxShaderModel,
                   loads, m_IsInitialized, m_pCreateInstance>>

\* GetVersion: MajorVersion = m_MajorVer; read without the lock and without
\* a call of Load()
ReadMajorVer(t) ==
    /\ op = "Load" /\ at[t] = "idle" /\ callee[t] = "GetVersion"
    /\ observed' = [observed EXCEPT ![t].major = m_MajorVer]
    /\ at' = [at EXCEPT ![t] = "minor"]
    /\ UNCHANGED <<threadRest, callee, m_Guard, m_MajorVer, m_MinorVer, m_MaxShaderModel,
                   loads, m_IsInitialized, m_pCreateInstance>>

\* GetVersion: MinorVersion = m_MinorVer; and the return
ReadMinorVer(t) ==
    /\ at[t] = "minor"
    /\ observed' = [observed EXCEPT ![t].minor = m_MinorVer]
    /\ at' = [at EXCEPT ![t] = "done"]
    /\ UNCHANGED <<threadRest, callee, m_Guard, m_MajorVer, m_MinorVer, m_MaxShaderModel,
                   loads, m_IsInitialized, m_pCreateInstance>>

(***************************************************************************)
(* The specifications: one call of RemapResourceBindings or of Compile,    *)
(* one call of IsDXILBytecode, and threads that call Load.                 *)
(***************************************************************************)
\* The loops of the patch passes that move the cursor one character, or one
\* occurrence, at a time; a run follows one of them from an arbitrary cursor
ScanLoops == {"NextArg", "ReadResName", "SkipArray", "ReadNumber", "CountUsage"}

\* Fragments of IR text that end inside a call, a name, a number or an array
ScanFragments ==
    { "(i32 57, i8 0, i32 0, i32 %22",
      "!{i32 0, [4 x %\"class.Texture2D<float>\"]* undef, !\"g_Tex",
      "  %22 = add i32 %17, 12",
      "%22 %22, %221 %22) %2",
      "%22" }

\* The buffers the loops are run on
ScanTexts ==
    {RenderShader(GeneralShader(1, "right")), RenderShader(ClutterShader("nodigits"))}
        \cup ScanFragments

\* The places of ResNameDecl in DXIL: the values EndOfResTypeRecord takes
ResNameDeclPlaces(text) == {q \in 0..Len(text) : StrNCmpEq(text, q, ResNameDecl)}

\* What an iteration of a scanning loop never changes
scanRest ==
    <<op, D3D12_SUPPORTED, m_Target, Shader, ResourceMap, m_IsInitialized, m_pCreateInstance,
      pShaderReflection, ExtResMap, DXIL, rtTodo, compiled, DstByteCode, calls, failed,
      handleLog, probeVars, threadVars, EndOfResTypeRecord, SrcIndexStr>>

\* A loop whose increment is left out
ScanStay == pos' = pos /\ UNCHANGED <<pc, Result>>

\* ++pos and the next test of the loop condition
ScanOn == pos' = pos + 1 /\ UNCHANGED <<pc, Result>>

\* return value; in a lambda, and break or the loop condition failing, which
\* return nothing: the loop is left with the cursor where it is
ScanReturn(value) == pc' = "Done" /\ Result' = value /\ pos' = pos

\* One iteration of for (; pos < DXIL.size(); ++pos) in the NextArg lambda
NextArgStep ==
    /\ pc = "NextArg"
    /\ IF ~(pos < Len(DXIL)) THEN ScanReturn(FALSE)
       ELSE IF CharAt(DXIL, pos) = "," THEN ScanReturn(TRUE)
       ELSE IF CharAt(DXIL, pos) \in {")", "\n"} THEN ScanReturn(FALSE)
       ELSE ScanOn
    /\ UNCHANGED <<scanRest, IndexVarUsageCount>>

\* One iteration of for (; pos < DXIL.size(); ++pos) in the ReadResName lambda
ReadResNameStep ==
    /\ pc = "ReadResName"
    /\ IF ~(pos < Len(DXIL)) THEN ScanReturn(FALSE)
       ELSE IF IsWordSymbol(CharAt(DXIL, pos)) THEN ScanOn
       ELSE ScanReturn(CharAt(DXIL, pos) = "\"")
    /\ UNCHANGED <<scanRest, IndexVarUsageCount>>

\* One iteration of for (; pos < EndOfResTypeRecord; ++pos), which skips an
\* array declaration
SkipArrayStep ==
    /\ pc = "SkipArray"
    /\ IF ~(pos < EndOfResTypeRecord) THEN ScanReturn(Result)
       ELSE IF ~(IsNumberSymbol(CharAt(DXIL, pos)) \/ CharAt(DXIL, pos) \in {" ", "x"})
       THEN ScanReturn(Result)
       ELSE ScanOn
    /\ UNCHANGED <<scanRest, IndexVarUsageCount>>

\* One iteration of for (; pos < DXIL.size(); ++pos), which runs over the
\* constant argument of the add instruction
ReadNumberStep ==
    /\ pc = "ReadNumber"
    /\ IF ~(pos < Len(DXIL)) THEN ScanReturn(Result)
       ELSE IF ~IsNumberSymbol(CharAt(DXIL, pos)) THEN ScanReturn(Result)
       ELSE ScanOn
    /\ UNCHANGED <<scanRest, IndexVarUsageCount>>

\* One iteration of for (pos = 0; pos < DXIL.size();) under DILIGENT_DEVELOPMENT,
\* which counts the uses of the index variable
CountUsageStep ==
    /\ pc = "CountUsage"
    /\ IF ~(pos < Len(DXIL))
       THEN pc' = "Done" /\ UNCHANGED <<pos, IndexVarUsageCount>>
       ELSE \E found \in {Find(DXIL, SrcIndexStr, pos + 1)} :
               IF found = npos
               THEN /\ pos' = npos
                    /\ pc' = "Done"
                    /\ UNCHANGED IndexVarUsageCount
               ELSE /\ pos' = found + Len(SrcIndexStr)
                    /\ pc' = pc
                    /\ IndexVarUsageCount' =
                           IF CharAt(DXIL, found + Len(SrcIndexStr)) \in {" ", ","}
                           THEN ToU32(IndexVarUsageCount + 1)
                           ELSE IndexVarUsageCount
    /\ UNCHANGED <<scanRest, Result>>

\* The state of the variables a specification does not use
NoCall ==
    /\ D3D12_SUPPORTED = TRUE
    /\ m_Target = "Direct3D12"
    /\ Shader = GeneralShader(0, "none")
    /\ ResourceMap = Empty

NoProbe ==
    /\ Bytecode = [Size |-> 0]
    /\ SizeTBits = 2 * UintBits
    /\ part = 0
    /\ reads = {}

NoThreads ==
    /\ callee = [t \in {} |-> ""]
    /\ at = [t \in {} |-> ""]
    /\ m_Guard = {}
    /\ m_MajorVer = 0
    /\ m_MinorVer = 0
    /\ m_MaxShaderModel = <<0, 0>>
    /\ observed = [t \in {} |-> ""]
    /\ loads = <<>>

NoScan ==
    /\ EndOfResTypeRecord = 0
    /\ SrcIndexStr = ""
    /\ IndexVarUsageCount = 0

Init == (RemapInit \/ CompileInit) /\ CallInit /\ NoProbe /\ NoThreads /\ NoScan

Next ==
    \/ RemapUnsupported
    \/ GetCreateInstaceProc
    \/ CreateInstances
    \/ Disassemble
    \/ GetD3D12ShaderReflection
    \/ GetDesc
    \/ BuildExtResourceMap
    \/ PatchDXIL
    \/ PatchResourceDeclarationRT
    \/ PatchResourceDeclaration
    \/ PatchResourceHandle
    \/ Assemble
    \/ ValidateAndSign
    \/ CompileSource
    \/ CompileTarget

Spec == Init /\ [][Next]_vars

ProbeStart == ProbeInit /\ NoCall /\ CallInit /\ NoThreads /\ NoScan

ProbeNext == ProbeHeader \/ ProbeTable \/ ProbePart

ProbeSpec == ProbeStart /\ [][ProbeNext]_vars

LoadInit == op = "Load" /\ ThreadInit /\ NoCall /\ CallInit /\ NoProbe /\ NoScan

LoadNext ==
    \E t \in Threads :
        \/ CallLoad(t)
        \/ Lock(t)
        \/ CheckInitialized(t)
        \/ LoadLibrary(t)
        \/ GetVersionInfo(t)
        \/ SetMaxShaderModel(t)
        \/ ReturnToCaller(t)
        \/ ReadMajorVer(t)
        \/ ReadMinorVer(t)
        \/ CompileIsLoaded(t)
        \/ CompileValidate(t)

LoadSpec == LoadInit /\ [][LoadNext]_vars

\* A run of one scanning loop: the loop, the buffer and where the cursor starts
ScanInit ==
    /\ op = "Scan"
    /\ NoCall
    /\ pc \in ScanLoops
    /\ m_IsInitialized = FALSE
    /\ m_pCreateInstance = "null"
    /\ pShaderReflection = "null"
    /\ ExtResMap = Empty
    /\ DXIL \in ScanTexts
    /\ pos \in IF pc = "CountUsage" THEN {0} ELSE 0..Len(DXIL)
    /\ rtTodo = {}
    /\ compiled = {}
    /\ Result = FALSE
    /\ DstByteCode = {}
    /\ calls = <<>>
    /\ failed = ""
    /\ handleLog = <<>>
    /\ NoProbe
    /\ NoThreads
    /\ EndOfResTypeRecord \in
            IF pc = "SkipArray" THEN {q \in ResNameDeclPlaces(DXIL) : pos <= q} ELSE {0}
    /\ SrcIndexStr \in IF pc = "CountUsage" THEN {"%22", "%2", "%17"} ELSE {""}
    /\ IndexVarUsageCount = 0

ScanNext ==
    \/ NextArgStep
    \/ ReadResNameStep
    \/ SkipArrayStep
    \/ ReadNumberStep
    \/ CountUsageStep

\* The calls of RemapResourceBindings and of Compile together with the runs of
\* the single loops. The code is sequential and nothing suspends it: a step
\* that can be taken is taken
RunInit == Init \/ ScanInit

RunNext == Next \/ ScanNext

RunSpec == RunInit /\ [][RunNext]_vars /\ WF_vars(RunNext)

(***************************************************************************)
(* Properties of RemapResourceBindings and Compile (specification Spec).   *)
(***************************************************************************)
Range(s) == {s[k] : k \in 1..Len(s)}

Contains(s, pat) == Find(s, pat, 0) # npos

\* The index of the first element of the sequence s that equals x, 0 if none
IndexOf(s, x) == IF x \in Range(s) THEN SetMin({k \in 1..Len(s) : s[k] = x}) ELSE 0

RemapSucceeded == op = "Remap" /\ pc = "Done" /\ Result = TRUE

\* The declaration d as the request Bind asks for it
TargetDecl(d, Bind) == DeclText(d, d.name, to_string(Bind.Space), to_string(Bind.BindPoint))

\* The declaration record of d in the IR text dxil is the requested one if d
\* is requested and known to reflection, and the original one otherwise
DeclAsRequested(dxil, d) ==
    IF d.name \in Reflected
    THEN /\ Contains(dxil, TargetDecl(d, ResourceMap[d.name]))
         /\ TargetDecl(d, ResourceMap[d.name]) # RenderDecl(d) => ~Contains(dxil, RenderDecl(d))
    ELSE Contains(dxil, RenderDecl(d))

\* C1: after a remap that reports success, every declaration record of a
\* requested resource that reflection knows carries the target space and the
\* target bind point in the output IR, and the record of every declaration
\* that belongs to no requested resource is what it was in the input.
C1_DeclarationsCarryTarget ==
    RemapSucceeded =>
        /\ DstByteCode # {}
        /\ \A blob \in DstByteCode : \A k \in 1..Len(Shader.decls) :
                DeclAsRequested(blob.dxil, Shader.decls[k])

\* A successful remap of a ray-tracing shader that moves g_Tex and leaves
\* Constants, which is not requested, alone
C1_Witness ==
    /\ RemapSucceeded
    /\ IsRayTracingShType(Shader.ShType)
    /\ "g_Tex" \in Reflected /\ "Constants" \notin Reflected
    /\ \E blob \in DstByteCode : ~Contains(blob.dxil, RenderDecl(Shader.decls[1]))

\* The entries of ExtResMap whose record id and type match those of the
\* logged call e and whose interval [SrcBindPoint, SrcBindPoint + ArraySize),
\* taken over the integers, contains the index the call had
EntriesContaining(e) ==
    {Name \in DOMAIN ExtResMap :
        /\ ExtResMap[Name].RecordId = e.RangeId
        /\ e.ResClass < Len(ResClassToType)
        /\ ExtResMap[Name].Type = ResClassToType[e.ResClass + 1]
        /\ e.SrcIndex >= ExtResMap[Name].SrcBindPoint
        /\ e.SrcIndex < ExtResMap[Name].SrcBindPoint + ResourceMap[Name].ArraySize}

\* C2: every handle-creation call is resolved against an entry whose record
\* id and class match and whose half-open interval [originalBindPoint,
\* originalBindPoint + arraySize) contains the source index, its literal
\* becomes targetBindPoint + (sourceIndex - originalBindPoint), and the pass
\* fails only when no entry contains the index.
C2_HandleResolution ==
    \A k \in 1..Len(handleLog) :
        IF EntriesContaining(handleLog[k]) = {}
        THEN handleLog[k].Name = ""
        ELSE /\ handleLog[k].Name \in EntriesContaining(handleLog[k])
             /\ handleLog[k].NewIndex =
                    ResourceMap[handleLog[k].Name].BindPoint
                        + (handleLog[k].SrcIndex - ExtResMap[handleLog[k].Name].SrcBindPoint)

\* C3: when a stage of RemapResourceBindings fails, the call returns false
\* and nothing is written to the output.
C3_NoPartialSuccess ==
    (op = "Remap" /\ failed # "") =>
        /\ pc # "Crashed"
        /\ DstByteCode = {}
        /\ pc = "Done" => Result = FALSE

\* The place of a stage in the order of RemapResourceBindings
StageRank(stage) ==
    CASE stage = "Load" -> 0
      [] stage = "CreateInstance" -> 1
      [] stage = "Disassemble" -> 2
      [] stage = "GetD3D12ShaderReflection" -> 3
      [] stage = "BuildExtResourceMap" -> 4
      [] stage \in {"PatchResourceDeclaration", "PatchResourceDeclarationRT"} -> 5
      [] stage = "PatchResourceHandle" -> 6
      [] stage = "AssembleToContainer" -> 7
      [] stage = "ValidateAndSign" -> 8

Unreflected == DOMAIN ResourceMap \ DOMAIN ReflectionOf(Shader)

C10_RemapUnsignedForOtherTargets ==
    (RemapSucceeded /\ m_Target # "Direct3D12") =>
        /\ "ValidateAndSign" \notin Range(calls)
        /\ \A blob \in DstByteCode : ~blob.validated

\* C10: a successful remap returns the blob that ValidateAndSign produced,
\* whatever the target; only Compile returns the compiled blob without
\* validation, and it does so exactly when the target is not Direct3D12.
C10_RemapAlwaysValidates ==
    (op \in {"Remap", "Compile"} /\ pc = "Done" /\ Result = TRUE) =>
        /\ DstByteCode # {}
        /\ IF op = "Compile" /\ m_Target # "Direct3D12"
           THEN /\ "ValidateAndSign" \notin Range(calls)
                /\ \A blob \in DstByteCode : ~blob.validated
           ELSE /\ calls[Len(calls)] = "ValidateAndSign"
                /\ \A blob \in DstByteCode : blob.validated

\* A successful remap for the Vulkan target, which went through ValidateAndSign
C10_Witness ==
    /\ RemapSucceeded
    /\ m_Target = "Vulkan"
    /\ "ValidateAndSign" \in Range(calls)
    /\ \E blob \in DstByteCode : blob.validated

(***************************************************************************)
(* Properties of IsDXILBytecode (specification ProbeSpec).                 *)
(***************************************************************************)
\* C7: IsDXILBytecode reads no byte outside [0, Size) of its input and
\* always returns: every read of the header, of the offset table and of a
\* part header lies in the buffer.
C7_ReadsInBounds ==
    op = "IsDXILBytecode" =>
        /\ pc # "Crashed"
        /\ \A r \in reads : InBuffer(r.off, r.len)

\* The header is valid and the offset table fits in the buffer
ValidContainer ==
    /\ SizeofContainerHeader <= Bytecode.Size
    /\ Bytecode.HeaderFourCC = "DXBC" /\ Bytecode.Major = 1
    /\ SizeofContainerHeader + SizeofUint32 * Bytecode.PartCount <= Bytecode.Size
    /\ Bytecode.PartCount <= Len(Bytecode.PartOffsets)

\* The kind tag of the part header at off
PartKind(off) == IF off \in DOMAIN Bytecode.Parts THEN Bytecode.Parts[off] ELSE "other"

\* The scan of the parts from the k-th on, in table order: TRUE at a DXIL
\* part, FALSE at a part whose header does not fit or after the last part
RECURSIVE ScanParts(_)
ScanParts(k) ==
    IF k >= Bytecode.PartCount THEN FALSE
    ELSE IF Bytecode.PartOffsets[k + 1] + SizeofPartHeader > Bytecode.Size THEN FALSE
    ELSE IF PartKind(Bytecode.PartOffsets[k + 1]) = "DXIL" THEN TRUE
    ELSE ScanParts(k + 1)

\* C8: for a buffer with a valid header whose offset table fits,
\* IsDXILBytecode returns true exactly when the scan of the parts in table
\* order reaches a DXIL part before a part whose header does not fit, and
\* false otherwise.
C8_FindsDXILPart ==
    (op = "IsDXILBytecode" /\ ValidContainer) =>
        /\ pc # "Crashed"
        /\ pc = "Done" => Result = ScanParts(0)

(***************************************************************************)
(* Properties of Load (specification LoadSpec).                            *)
(***************************************************************************)
\* C9: whatever the interleaving of the callers of IsLoaded and
\* GetMaxShaderModel, the library is loaded and the version and the maximum
\* shader model are computed at most once, by the caller that holds the lock,
\* and every caller that has returned from Load observes the values of the
\* finished initialisation.
C9_InitialisedOnce ==
    op = "Load" =>
        /\ Len(loads) <= 1
        /\ \A t \in Threads : at[t] \in {"check", "load", "version", "model"} => m_Guard = {t}
        /\ \A t \in Threads : (at[t] \in {"loaded", "done"} /\ callee[t] # "GetVersion") =>
                /\ m_IsInitialized
                /\ \A u \in Threads : at[u] \notin {"load", "version", "model"}
                /\ observed[t].proc = m_pCreateInstance
        /\ \A t \in Threads : (at[t] = "done" /\ callee[t] = "GetMaxShaderModel") =>
                observed[t].model = m_MaxShaderModel

\* All the callers have returned, the library was loaded by one of them, and
\* another one read the maximum shader model that the first computed
C9_Witness ==
    /\ op = "Load"
    /\ \A t \in Threads : at[t] = "done"
    /\ Len(loads) = 1
    /\ m_pCreateInstance = "DxcCreateInstance"
    /\ \E t \in Threads :
            /\ loads[1] # t
            /\ callee[t] = "GetMaxShaderModel"
            /\ observed[t].model = <<6, 5>>
\* ---------------------------------------------------------------------------
\* Offset preservation of ReplaceBindPoint

\* The entries of handleLog that ReplaceBindPoint rewrote
Rewritten == {k \in 1..Len(handleLog) : handleLog[k].Name # ""}

FieldStart(s, p) == p + Len(", i32 ")
FieldEnd(s, p) == FindFirstNotOf(s, NumberSymbols, FieldStart(s, p))
FieldValue(s, p) ==
    ToU32(Stoi(Substr(s, FieldStart(s, p), FieldEnd(s, p) - FieldStart(s, p))).val)

\* The position after the first name literal !"Name" of the text s
AfterName(s, Name) == Find(s, "!\"" \o Name \o "\"", 0) + Len(Name) + 3

\* What a step that patches the two fields after position p may do, when
\* reflection captured Ext for them: with a space field that differs from
\* Ext.SrcSpace the text stays as it is and the pass fails; with a bind point
\* field that differs from Ext.SrcBindPoint that field stays as it is and the
\* pass fails; a pass that goes on has found both fields equal
FieldsChecked(p, Ext, stage) ==
    /\ FieldValue(DXIL, p) # Ext.SrcSpace =>
          DXIL' = DXIL /\ failed' = stage /\ pc' = "Done" /\ Result' = FALSE
    /\ FieldValue(DXIL, FieldEnd(DXIL, p)) # Ext.SrcBindPoint =>
          /\ FieldValue(DXIL', FieldEnd(DXIL', p)) = FieldValue(DXIL, FieldEnd(DXIL, p))
          /\ failed' = stage /\ pc' = "Done" /\ Result' = FALSE
    /\ failed' = "" =>
          /\ FieldValue(DXIL, p) = Ext.SrcSpace
          /\ FieldValue(DXIL, FieldEnd(DXIL, p)) = Ext.SrcBindPoint

\* An iteration of PatchResourceDeclarationRT for a request whose name is in
\* the text
PatchedRT(Name) ==
    /\ pc = "PatchResourceDeclarationRT"
    /\ Name \in rtTodo /\ Name \notin rtTodo'
    /\ Contains(DXIL, "!\"" \o Name \o "\"")

\* An iteration of PatchResourceDeclaration that matched the declaration it
\* scanned to the entry of a request
PatchedGeneric ==
    /\ pc = "PatchResourceDeclaration"
    /\ pos < Len(DXIL)
    /\ DeclScan(DXIL, pos, ExtResMap).kind = "match"
    /\ DeclMatches(DeclScan(DXIL, pos, ExtResMap), ExtResMap) # {}

\* C12: a declaration's space or bind point field is replaced only when the
\* value parsed from the text equals the value reflection gave for it; on a
\* mismatch the pass fails and the field is not replaced; and after a failed
\* declaration pass the remap is over: it returns false, no later pass or
\* stage has started and no bytecode is returned
C12_ReplaceOnlyExpected ==
    /\ [](failed \in {"PatchResourceDeclarationRT", "PatchResourceDeclaration"} =>
            /\ pc = "Done" /\ Result = FALSE
            /\ calls[Len(calls)] = failed
            /\ handleLog = <<>> /\ compiled = {} /\ DstByteCode = {})
    /\ [][/\ \A Name \in DOMAIN ResourceMap :
                PatchedRT(Name) =>
                    FieldsChecked(AfterName(DXIL, Name), ExtAt(Name),
                                  "PatchResourceDeclarationRT")
          /\ PatchedGeneric =>
                \E Name \in DeclMatches(DeclScan(DXIL, pos, ExtResMap), ExtResMap) :
                    FieldsChecked(DeclScan(DXIL, pos, ExtResMap).BindingRecordStart,
                                  ExtResMap[Name], "PatchResourceDeclaration")]_vars

\* The ray-tracing pass replaced the space field after the first !"g_Tex",
\* found the bind point field 16 different from the reflected one and failed
C12_Witness ==
    /\ failed = "PatchResourceDeclarationRT"
    /\ Contains(DXIL, "!\"g_Tex\", i32 1, i32 16}")

\* ---------------------------------------------------------------------------
\* The record id of an entry of the extended map

\* C13: once the RecordId of an entry of the extended map has been set to a
\* value other than the sentinel ~0u, no step of the remap changes it: a step
\* that finds another id for the entry fails the remap and leaves the id as it
\* was
C13_RecordIdSetOnce ==
    [][\A Name \in DOMAIN ExtResMap \cap DOMAIN ExtResMap' :
          (/\ ExtResMap[Name].RecordId # UINT_MAX
           /\ ExtResMap'[Name].RecordId # ExtResMap[Name].RecordId)
          => FALSE]_vars

\* ---------------------------------------------------------------------------
\* Candidates of the declaration scans that are not resource declarations

\* The candidate that a pass of the generic scan looks at: where its ", !\""
\* is, where the scan of its name stops, where the record before it opens,
\* and where the digits of that record's id and its name literal end
Cand == Find(DXIL, ResNameDecl, pos)
CandNameStop == FindFirstNotOf(DXIL, WordSymbols, Cand + Len(ResNameDecl))
CandRecStart == RFind(DXIL, ResourceRecStart, Cand)
CandIdEnd ==
    FindFirstNotOf(DXIL, NumberSymbols, CandRecStart + Len(ResourceRecStart) + Len(i32))

\* The reasons for which a candidate is not a resource declaration, each one
\* under the condition that the ones before it do not apply
NameUnterminated == CharAt(DXIL, CandNameStop) # "\""
NoRecordStart == ~NameUnterminated /\ CandRecStart = npos
NoIntegerId ==
    /\ ~NameUnterminated /\ CandRecStart # npos
    /\ ~StrNCmpEq(DXIL, CandRecStart + Len(ResourceRecStart), i32)
HasIntegerId ==
    /\ ~NameUnterminated /\ CandRecStart # npos
    /\ StrNCmpEq(DXIL, CandRecStart + Len(ResourceRecStart), i32)
IdUnterminated == HasIntegerId /\ ~CommaSpaceAt(DXIL, CandIdEnd)
NoTypeReference ==
    /\ HasIntegerId /\ CommaSpaceAt(DXIL, CandIdEnd)
    /\ CharAt(DXIL, CandIdEnd + 2) \notin {"%", "["}
HasTypeReference ==
    HasIntegerId /\ CommaSpaceAt(DXIL, CandIdEnd) /\ CharAt(DXIL, CandIdEnd + 2) = "%"
UnknownType ==
    HasTypeReference /\ ResTypeAt(DXIL, CandIdEnd + 3, ExtResMap) = RES_TYPE_INVALID
KnownType ==
    HasTypeReference /\ ResTypeAt(DXIL, CandIdEnd + 3, ExtResMap) # RES_TYPE_INVALID
FieldNotInteger ==
    /\ KnownType
    /\ ~(CommaSpaceAt(DXIL, CandNameStop + 1) /\ StrNCmpEq(DXIL, CandNameStop + 3, i32))
FieldWithoutDigits ==
    /\ KnownType
    /\ CommaSpaceAt(DXIL, CandNameStop + 1) /\ StrNCmpEq(DXIL, CandNameStop + 3, i32)
    /\ CharAt(DXIL, CandNameStop + 3 + Len(i32)) \notin NumberSymbols

\* A pass of the generic scan that looks at a candidate
ScansCandidate == pc = "PatchResourceDeclaration" /\ pos < Len(DXIL) /\ Cand # npos

\* The pass gives the candidate up and the scan goes on behind it
ScanGoesOn ==
    /\ pc' = pc /\ failed' = failed /\ Result' = Result
    /\ DXIL' = DXIL /\ ExtResMap' = ExtResMap
    /\ pos' > Cand

\* The pass raises an error, which ends the remap
ScanRaises ==
    /\ pc' = "Done" /\ failed' = "PatchResourceDeclaration" /\ Result' = FALSE
    /\ DXIL' = DXIL

\* An iteration of the ray-tracing scan for a request whose name literal is
\* not in the text goes on to the next request
AbsentNameSkipped ==
    \A Name \in DOMAIN ResourceMap :
        (/\ pc = "PatchResourceDeclarationRT"
         /\ Name \in rtTodo /\ Name \notin rtTodo'
         /\ ~Contains(DXIL, "!\"" \o Name \o "\""))
        => pc' = pc /\ failed' = failed /\ Result' = Result /\ DXIL' = DXIL

\* C14 as stated: whatever the reason for which a candidate of the generic
\* scan is not a resource declaration, the pass raises no error and the scan
\* goes on behind the candidate; and the ray-tracing scan skips a resource
\* whose name literal is absent
C14_CandidatesNeverRaise ==
    [][/\ (ScansCandidate /\ (\/ NameUnterminated \/ NoRecordStart \/ NoIntegerId
                              \/ IdUnterminated \/ NoTypeReference \/ UnknownType
                              \/ FieldNotInteger \/ FieldWithoutDigits))
            => ScanGoesOn
       /\ AbsentNameSkipped]_vars

\* C14 as the code has it: the scan goes on behind a candidate whose name
\* literal is not closed by a quote, whose record does not start with an i32
\* id, whose id is followed by something else than a type reference, whose
\* type is not a known resource type, or whose next field is not of the form
\* ", i32 "; it raises an error, which ends the remap, for a candidate with
\* no record-opening token before it, with an id that is not followed by
\* ", ", or with an i32 field that has no digits; and the ray-tracing scan
\* skips a resource whose name literal is absent
C14_CandidatesSkippedOrRaised ==
    [][/\ (ScansCandidate /\ (\/ NameUnterminated \/ NoIntegerId \/ NoTypeReference
                              \/ UnknownType \/ FieldNotInteger))
            => ScanGoesOn
       /\ (ScansCandidate /\ (NoRecordStart \/ IdUnterminated \/ FieldWithoutDigits))
            => ScanRaises
       /\ AbsentNameSkipped]_vars

\* The scan gave up the candidate !"dx.ver", went on, and the remap succeeded
C14_Witness ==
    /\ RemapSucceeded
    /\ Shader = ClutterShader("unterminated")
    /\ "PatchResourceDeclaration" \in Range(calls)

\* ---------------------------------------------------------------------------
\* The lookup of a classified candidate

\* A pass of the generic scan whose candidate was classified: c is what the
\* scan parsed from its record
Classified(c) == ScansCandidate /\ c.kind = "match"

\* The entries of the extended map that have the triple written in the
\* record of the candidate: its two fields after the name and its class
TripleEntries(c) ==
    {Name \in DOMAIN ExtResMap :
        /\ ExtResMap[Name].SrcSpace = FieldValue(DXIL, CandNameStop + 1)
        /\ ExtResMap[Name].SrcBindPoint
             = FieldValue(DXIL, FieldEnd(DXIL, CandNameStop + 1))
        /\ ExtResMap[Name].Type = c.ResType}

\* Where the fields of the candidate are after the pass, which has put the
\* name Name into an empty name literal
FieldsAfter(c, Name) == CandNameStop + 1 + (IF c.ResName = "" THEN Len(Name) ELSE 0)

\* The pass gave the entry of Name the id of the record and rewrote the two
\* fields of the record to the target of Name
RemappedTo(c, Name) ==
    /\ ExtResMap'[Name].RecordId = c.RecordId
    /\ FieldValue(DXIL', FieldsAfter(c, Name)) = ResourceMap[Name].Space
    /\ FieldValue(DXIL', FieldEnd(DXIL', FieldsAfter(c, Name))) = ResourceMap[Name].BindPoint
    /\ pc' = pc /\ failed' = failed

\* C15: a classified candidate of the generic scan is looked up by the
\* triple (space, bind point, class) parsed from its record, whatever its
\* name literal holds; with no entry of that triple the pass fails with an
\* error; with one, that entry gets the id of the record and the fields of
\* the record are rewritten to the target of that entry
C15_LookupByTriple ==
    [][\A c \in {DeclScan(DXIL, pos, ExtResMap)} :
          Classified(c) =>
              IF TripleEntries(c) = {} THEN ScanRaises
              ELSE \E Name \in TripleEntries(c) : RemappedTo(c, Name)]_vars

\* The unnamed declaration of g_Tex was matched by its triple: the entry has
\* its id and the record the name and the target space and bind point
C15_Witness ==
    /\ pc = "PatchResourceDeclaration"
    /\ Shader = GeneralShader(1, "none")
    /\ "g_Tex" \in DOMAIN ExtResMap
    /\ ExtResMap["g_Tex"].RecordId = 0
    /\ Contains(DXIL, "!\"g_Tex\", i32 1, i32 12, ")

\* ---------------------------------------------------------------------------
\* The index of a createHandle call that an add defines

\* The call that a pass of the handle scan looks at: where it is, the span
\* and the text of its index operand (the i32 before the closing i1), the
\* add that defines that operand, and the spans of the two operands of the add
CallPos == Find(DXIL, CallHandlePattern, pos)
CallIndexEnd == RFind(DXIL, ", i1 ", Find(DXIL, "\n", CallPos))
CallIndexStart == RFind(DXIL, ", i32 ", CallIndexEnd) + Len(", i32 ")
IndexText == Substr(DXIL, CallIndexStart, CallIndexEnd - CallIndexStart)
AddPos == RFind(DXIL, IndexText \o " = add i32 ", CallIndexEnd)
LeftStart == AddPos + Len(IndexText \o " = add i32 ")
LeftEnd == Find(DXIL, ", ", LeftStart)
RightStart == LeftEnd + 2
RightEnd == Find(DXIL, "\n", RightStart)

\* The text of the span [from, to) is a literal: digits only
IsLiteral(from, to) ==
    from < to /\ \A q \in from..(to - 1) : CharAt(DXIL, q) \in Digits

\* A pass of the handle scan at a call whose index operand is a reference
ScansReference ==
    /\ pc = "PatchResourceHandle" /\ pos < Len(DXIL)
    /\ CallPos # npos
    /\ CharAt(IndexText, 0) = "%"

\* The pass replaces the literal in the span [from, to), and nothing else, by
\* the bind point of a request plus the offset of the literal from the
\* original bind point of that request
LiteralRewritten(from, to) ==
    \E Name \in DOMAIN ResourceMap \cap DOMAIN ExtResMap :
        /\ DXIL' = SubSeq(DXIL, 1, from)
                     \o to_string(ToU32(ResourceMap[Name].BindPoint
                           + ToU32(DigitsVal(DXIL, from, to - from, 0)
                                   - ExtResMap[Name].SrcBindPoint)))
                     \o SubSeq(DXIL, to + 1, Len(DXIL))
        /\ handleLog' = Append(handleLog, handleLog'[Len(handleLog')])
        /\ handleLog'[Len(handleLog')].Name = Name
        /\ failed' = failed /\ pc' = pc

\* The pass finds no binding range that holds the literal, and raises
NoRangeRaises ==
    /\ handleLog' = Append(handleLog, handleLog'[Len(handleLog')])
    /\ handleLog'[Len(handleLog')].Name = ""
    /\ DXIL' = DXIL /\ failed' = "PatchResourceHandle" /\ pc' = "Done" /\ Result' = FALSE

\* The pass raises an error before it resolves anything
HandleRaises ==
    /\ DXIL' = DXIL /\ handleLog' = handleLog
    /\ failed' = "PatchResourceHandle" /\ pc' = "Done" /\ Result' = FALSE

\* C16: when the index operand of a createHandle call refers to a value that
\* a two-operand add defines, the pass rewrites the one operand of the add
\* that is a literal, on the left or on the right, to the target bind point
\* plus the offset of the literal from the original bind point (or fails
\* because no binding range holds the literal), and leaves every other
\* character of the text, the other operand and the reference in the call
\* among them, as it was; an add without a literal operand, and a reference
\* that no add defines, are errors that end the remap
C16_OnlyAddLiteralRewritten ==
    [][ScansReference =>
          IF AddPos = npos THEN HandleRaises
          ELSE IF IsLiteral(LeftStart, LeftEnd)
          THEN LiteralRewritten(LeftStart, LeftEnd) \/ NoRangeRaises
          ELSE IF IsLiteral(RightStart, RightEnd)
          THEN LiteralRewritten(RightStart, RightEnd) \/ NoRangeRaises
          ELSE HandleRaises]_vars

\* The literal on the left of the add that defines %22 was rewritten, and the
\* other operand and the reference in the call are as they were
C16_Witness ==
    /\ RemapSucceeded
    /\ Shader = GeneralShader(1, "left")
    /\ "g_Tex" \in DOMAIN ResourceMap
    /\ ResourceMap["g_Tex"].BindPoint = 12
    /\ Contains(DXIL, "%22 = add i32 13, %17\n")
    /\ Contains(DXIL, "i32 57, i8 0, i32 0, i32 %22, i1 false)")

\* ---------------------------------------------------------------------------
\* The cursors of the scans after an edit

\* The text s from the offset p on
Suffix(s, p) == SubSeq(s, p + 1, Len(s))

\* Where the second of the two fields after the name of the candidate ends
CandFieldsEnd == FieldEnd(DXIL, FieldEnd(DXIL, CandNameStop + 1))

\* C17: no offset is used after an edit that shifted it: when a pass of the
\* handle scan has rewritten an index, the cursor it resumes from designates
\* what the end of the index operand designated before the edit, the text
\* from ", i1" on; and when a pass of the declaration scan has rewritten a
\* record (and put a name into it), the cursor it resumes from designates
\* what the end of the bind point field designated before, the text behind
\* that field
C17_CursorsFollowEdits ==
    [][/\ (pc = "PatchResourceHandle" /\ DXIL' # DXIL)
            => Suffix(DXIL', pos') = Suffix(DXIL, CallIndexEnd)
       /\ (pc = "PatchResourceDeclaration" /\ DXIL' # DXIL)
            => Suffix(DXIL', pos') = Suffix(DXIL, CandFieldsEnd)]_vars

\* ---------------------------------------------------------------------------
\* What the patch passes change in the text

\* A numeric literal starts at the offset p of the text s: a number symbol
\* that follows "i32 " or ", "
LiteralAt(s, p) ==
    /\ CharAt(s, p) \in NumberSymbols
    /\ StrNCmpEq(s, p - Len(i32), i32) \/ StrNCmpEq(s, p - 2, ", ")

\* The offset p of the text s is the closing quote of an empty name literal
EmptyNameAt(s, p) == StrNCmpEq(s, p - 2, "!\"\"")

\* The text b between the offsets j and eb is the text a between the offsets
\* i and ea, with numeric literals replaced by numeric literals and with
\* names put into empty name literals, and otherwise the same characters in
\* the same order
RECURSIVE SameButLiterals(_, _, _, _, _, _)
SameButLiterals(a, i, ea, b, j, eb) ==
    IF j < eb /\ EmptyNameAt(a, i) /\ StrNCmpEq(b, j - 2, "!\"") /\ IsWordSymbol(CharAt(b, j))
    THEN SameButLiterals(a, i, ea, b, SkipWhile(b, j, Len(b), WordSymbols), eb)
    ELSE IF i >= ea \/ j >= eb THEN i >= ea /\ j >= eb
    ELSE IF LiteralAt(a, i) /\ LiteralAt(b, j)
    THEN SameButLiterals(a, SkipWhile(a, i, Len(a), NumberSymbols), ea,
                         b, SkipWhile(b, j, Len(b), NumberSymbols), eb)
    ELSE CharAt(a, i) = CharAt(b, j) /\ SameButLiterals(a, i + 1, ea, b, j + 1, eb)

\* The lengths of the longest common prefix and of the longest common
\* suffix of the texts a and b
CommonPrefix(a, b) ==
    SetMin({k \in 0..Min(Len(a), Len(b)) :
                k = Min(Len(a), Len(b)) \/ CharAt(a, k) # CharAt(b, k)})
CommonSuffix(a, b) ==
    SetMin({k \in 0..Min(Len(a), Len(b)) :
                \/ k = Min(Len(a), Len(b))
                \/ CharAt(a, Len(a) - 1 - k) # CharAt(b, Len(b) - 1 - k)})

\* The last offset at or before p that no number symbol precedes in s, and
\* the first offset at or after p at which no number symbol stands
LiteralStartBefore(s, p) ==
    SetMax({k \in 0..p : k = 0 \/ CharAt(s, k - 1) \notin NumberSymbols})
LiteralEndAfter(s, p) == SkipWhile(s, p, Len(s), NumberSymbols)

\* The text b is the text a but for literals and names: the two are compared
\* between the literal in which their common prefix ends and the literal in
\* which their common suffix starts
OnlyLiteralsAndNames(a, b) ==
    SameButLiterals(a, LiteralStartBefore(a, CommonPrefix(a, b)),
                    LiteralEndAfter(a, Len(a) - CommonSuffix(a, b)),
                    b, LiteralStartBefore(a, CommonPrefix(a, b)),
                    LiteralEndAfter(b, Len(b) - CommonSuffix(a, b)))

\* C18: every edit that a patch pass makes to the text replaces a numeric
\* literal by a numeric literal or puts a name into an empty name literal:
\* every other character of the text is the same, and in the same order,
\* after the pass as before it, and so in the output as in the input
C18_OnlyLiteralsAndNamesChange ==
    [][(op = "Remap" /\ DXIL # "" /\ DXIL' # DXIL) => OnlyLiteralsAndNames(DXIL, DXIL')]_vars

\* A remap that rewrote literals of a declaration and of a call and put the
\* name of g_Tex into the empty name literal of its record
C18_Witness ==
    /\ RemapSucceeded
    /\ Shader = GeneralShader(1, "right")
    /\ Len(DXIL) > Len(Disasm) + Len("g_Tex")
    /\ Contains(DXIL, "!\"g_Tex\", i32 1, i32 12, ")

\* ---------------------------------------------------------------------------
\* The choice of the declaration patcher

\* The number of times a stage was entered
Entered(stage) == Cardinality({k \in 1..Len(calls) : calls[k] = stage})

\* C20: a remap that comes to PatchDXIL runs exactly one of the two
\* declaration patchers, once: PatchResourceDeclarationRT if and only if the
\* shader type is one of the ray-tracing types, PatchResourceDeclaration
\* otherwise; in no state have both run on the text
C20_OneDeclarationPatcher ==
    op = "Remap" =>
        /\ Entered("PatchResourceDeclarationRT") + Entered("PatchResourceDeclaration") <= 1
        /\ Entered("PatchResourceDeclarationRT") = 1 => IsRayTracingShType(Shader.ShType)
        /\ Entered("PatchResourceDeclaration") = 1 => ~IsRayTracingShType(Shader.ShType)
        /\ (\/ pc \in {"PatchResourceDeclarationRT", "PatchResourceDeclaration",
                       "PatchResourceHandle"}
            \/ "AssembleToContainer" \in Range(calls)
            \/ DXIL # Disasm /\ DXIL # "")
            => Entered("PatchResourceDeclarationRT") + Entered("PatchResourceDeclaration") = 1

\* A remap of a general shader that succeeded after the generic declaration
\* patcher alone had run on its declarations
C20_Witness ==
    /\ RemapSucceeded
    /\ ~IsRayTracingShType(Shader.ShType)
    /\ Entered("PatchResourceDeclaration") = 1
    /\ Entered("PatchResourceDeclarationRT") = 0
    /\ DXIL # Disasm

\* The occurrences of pat in s that a search from the cursor can still find
Ahead(s, pat, from) == Cardinality({q \in from..(Len(s) - Len(pat)) : StrNCmpEq(s, q, pat)})

\* What the scan of a pass looks for
Sought(stage) == IF stage = "PatchResourceDeclaration" THEN ResNameDecl ELSE CallHandlePattern

PassLoops == {"PatchResourceDeclaration", "PatchResourceHandle"}

\* The loop the step belongs to runs another iteration after it
LoopGoesOn(loops) == pc \in loops /\ pc' = pc

\* The run is over: the call has returned or crashed, the loop has been left
Ended == pc \in {"Done", "Crashed"}

\* C19: an iteration of a scanning loop after which the loop goes on leaves the
\* cursor further than it found it, whether it skipped a candidate or edited
\* the buffer, and an iteration of the declaration scan or of the handle scan
\* leaves fewer candidates ahead of the cursor; every call and every loop, on
\* well-formed and on malformed text, comes to its end
C19_LoopsAdvanceAndEnd ==
    /\ [][/\ LoopGoesOn(PassLoops \cup ScanLoops) => pos' > pos
          /\ LoopGoesOn(PassLoops) =>
                Ahead(DXIL', Sought(pc), pos') < Ahead(DXIL, Sought(pc), pos)]_vars
    /\ <>Ended

\* A handle scan that has rewritten a literal of another length and gone on,
\* and a usage count that has gone through the whole buffer
C19_Witness ==
    \/ /\ pc = "PatchResourceHandle"
       /\ handleLog # <<>>
       /\ Len(DXIL) # Len(Disasm)
       /\ pos > 0
    \/ /\ op = "Scan"
       /\ pc = "Done"
       /\ pos = npos
       /\ IndexVarUsageCount = 2

\* The name literal of the candidate is empty
CandUnnamed == CandNameStop = Cand + Len(ResNameDecl)

\* What the name literal of the candidate holds
CandName == Substr(DXIL, Cand + Len(ResNameDecl), CandNameStop - Cand - Len(ResNameDecl))

\* The text of a name literal from its first character on, followed by the
\* two fields of the request Bind
NamedRecord(Name, Bind) ==
    Name \o "\", i32 " \o to_string(Bind.Space) \o ", i32 " \o to_string(Bind.BindPoint) \o ","

\* C21: a pass of the generic declaration scan that patches a record puts the
\* name of the matched resource into an empty name literal and leaves a name
\* literal that is not empty as it is, and the two rewritten fields follow the
\* closing quote of the name directly; so once the pass has succeeded, no
\* record of the text has an empty name in front of its fields
C21_NameInserted ==
    /\ []("PatchResourceHandle" \in Range(calls) => ~Contains(DXIL, "!\"\", i32 "))
    /\ [][\A c \in {DeclScan(DXIL, pos, ExtResMap)} :
            (Classified(c) /\ pc' = pc) =>
                \E Name \in TripleEntries(c) :
                    StrNCmpEq(DXIL', Cand + Len(ResNameDecl),
                              NamedRecord(IF CandUnnamed THEN Name ELSE CandName,
                                          ResourceMap[Name]))]_vars

\* The unnamed declaration of g_Tex carries the name and the target fields,
\* and the named declaration of Constants its own name and its target fields
C21_Witness ==
    /\ RemapSucceeded
    /\ Shader = GeneralShader(0, "none")
    /\ Contains(DXIL, "undef, !\"g_Tex\", i32 1, i32 12,")
    /\ Contains(DXIL, "undef, !\"Constants\", i32 0, i32 2,")
    /\ Contains(Disasm, "undef, !\"\", i32 0, i32 0,")


\* ---------------------------------------------------------------------------
\* C22: the declaration patcher applied to its own output

\* PatchResourceDeclaration called once more, with the same ResourceMap and
\* ExtResMap, on the text that its first call has patched
PatchResourceDeclarationAgain ==
    /\ pc = "PatchResourceHandle"
    /\ pos = 0
    /\ handleLog = <<>>
    /\ Entered("PatchResourceDeclaration") = 1
    /\ Enter("PatchResourceDeclaration")
    /\ pc' = "PatchResourceDeclaration"
    /\ UNCHANGED <<inputs, m_IsInitialized, m_pCreateInstance, pShaderReflection, ExtResMap,
                   DXIL, pos, rtTodo, compiled, Result, DstByteCode, failed, handleLog>>

\* PatchResourceDeclarationRT called once more in the same way
PatchResourceDeclarationRTAgain ==
    /\ pc = "Assemble"
    /\ Entered("PatchResourceDeclarationRT") = 1
    /\ Enter("PatchResourceDeclarationRT")
    /\ pc' = "PatchResourceDeclarationRT"
    /\ rtTodo' = DOMAIN ResourceMap
    /\ UNCHANGED <<inputs, m_IsInitialized, m_pCreateInstance, pShaderReflection, ExtResMap,
                   DXIL, pos, compiled, Result, DstByteCode, failed, handleLog>>

AgainNext == Next \/ PatchResourceDeclarationAgain \/ PatchResourceDeclarationRTAgain

\* The calls of RemapResourceBindings and of Compile in which a declaration
\* patcher may run a second time
AgainSpec == Init /\ [][AgainNext]_vars

\* Some request whose declaration the first call patched asks for a register
\* or a space other than the reflected one
SomeBindingMoves ==
    \E Name \in DOMAIN ExtResMap :
        /\ ExtResMap[Name].RecordId # UINT_MAX
        /\ <<ResourceMap[Name].Space, ResourceMap[Name].BindPoint>> #
               <<ExtResMap[Name].SrcSpace, ExtResMap[Name].SrcBindPoint>>

\* The second call of the declaration patcher stage has returned or thrown
AppliedAgain(stage) == Entered(stage) = 2 /\ pc # stage

\* C22: when a declaration patcher has run a second time on the text it
\* patched, with the same maps, and some resource's target (space, bindpoint)
\* differs from the reflected one, the second run has aborted with an error
C22_SecondApplicationAborts ==
    \A stage \in {"PatchResourceDeclaration", "PatchResourceDeclarationRT"} :
        (AppliedAgain(stage) /\ SomeBindingMoves) => failed = stage


\* ---------------------------------------------------------------------------
\* C23: two createHandle calls that take their index from one add

\* The calls j and k of ReplaceBindPoint were for the literal of the same add
SameAdd(j, k) ==
    /\ handleLog[j].dynamic
    /\ handleLog[k].dynamic
    /\ handleLog[j].ArgStart = handleLog[k].ArgStart

\* The first calls of ReplaceBindPoint for the literal of an add
FirstOfAdd == {k \in Rewritten : handleLog[k].dynamic /\ \A j \in 1..(k - 1) : ~SameAdd(j, k)}

\* The number n is the literal at the offset p of the text s
NumberAt(s, p, n) ==
    /\ StrNCmpEq(s, p, to_string(n))
    /\ CharAt(s, p + Len(to_string(n))) \notin NumberSymbols

\* C23: ReplaceBindPoint is called at most once for the literal of an add,
\* however many createHandle calls take their index from it, and the literal
\* stays the target bind point plus the offset of the original literal in the
\* source range
C23_AddLiteralRewrittenOnce ==
    /\ \A j, k \in DOMAIN handleLog : SameAdd(j, k) => j = k
    /\ \A k \in FirstOfAdd :
          (pc # "PatchResourceHandle" \/ k < Len(handleLog))
              => NumberAt(DXIL, handleLog[k].ArgStart,
                          ResourceMap[handleLog[k].Name].BindPoint +
                              (handleLog[k].SrcIndex - ExtResMap[handleLog[k].Name].SrcBindPoint))


\* ---------------------------------------------------------------------------
\* C24: lookups by the reflected values, and a remap that swaps two resources

\* ExtResMap holds the reflected bind point, space and type of every request
ReflectedKept ==
    \A Name \in DOMAIN ExtResMap :
        Name \in Reflected =>
            /\ ExtResMap[Name].SrcBindPoint = ExtOf(ReflectionOf(Shader)[Name]).SrcBindPoint
            /\ ExtResMap[Name].SrcSpace = ExtOf(ReflectionOf(Shader)[Name]).SrcSpace
            /\ ExtResMap[Name].Type = ExtOf(ReflectionOf(Shader)[Name]).Type

\* The Uint32 n is what a literal index operand, or a literal operand of an
\* add, of the text s reads as
IndexLiteralIn(s, n) ==
    \E lit \in {to_string(n), "-" \o to_string(Pow2(UintBits) - n)} :
        \/ Contains(s, ", i32 " \o lit \o ", i1 ")
        \/ Contains(s, ", " \o lit \o "\n")
        \/ Contains(s, "add i32 " \o lit \o ", ")

\* The record of Name in the text reads the space and the bind point Bind, and
\* the createHandle call of the class cls and the range id reads the index n
RecordReads(Name, Bind) == Contains(DXIL, "!\"" \o NamedRecord(Name, Bind))
CallReads(cls, id, n) ==
    Contains(DXIL, "i8 " \o to_string(cls) \o ", i32 " \o to_string(id) \o
                   ", i32 " \o to_string(n) \o ", i1 ")

\* C24: the reflected values in ExtResMap are never changed; every source
\* index that ReplaceBindPoint resolves is a literal of the input text, never
\* one that the remap wrote; and a successful remap of the shader of g_Tex and
\* g_Lut, of the same class, leaves each of the two at the binding asked for
\* it, which may be the reflected binding of the other
C24_OriginalsOnly ==
    /\ ReflectedKept
    /\ \A k \in DOMAIN handleLog : IndexLiteralIn(Disasm, handleLog[k].SrcIndex)
    /\ (RemapSucceeded /\ Shader \in PairShaders) =>
          /\ RecordReads("g_Tex", ResourceMap["g_Tex"])
          /\ RecordReads("g_Lut", ResourceMap["g_Lut"])
          /\ Shader = PairShader(0) =>
                /\ CallReads(0, 0, ResourceMap["g_Tex"].BindPoint + 2)
                /\ CallReads(0, 1, ResourceMap["g_Lut"].BindPoint)


\* ---------------------------------------------------------------------------
\* C25: the range test and the new index of ReplaceBindPoint in Uint32

\* The half-open interval of the integers that starts at SrcBindPoint and has
\* ArraySize elements contains SrcIndex
InInterval(SrcIndex, SrcBindPoint, ArraySize) ==
    SrcBindPoint <= SrcIndex /\ SrcIndex < SrcBindPoint + ArraySize

\* C25: for every source index that ReplaceBindPoint has resolved and every
\* entry of ExtResMap, the range test of the code is true exactly when the
\* index is in the interval [SrcBindPoint, SrcBindPoint + ArraySize) of the
\* integers, also for the array size ~0u; and an index that was written is
\* not below the target bind point
C25_RangeTestIsInterval ==
    \A k \in DOMAIN handleLog :
        /\ \A Name \in DOMAIN ExtResMap :
              InBindRange(handleLog[k].SrcIndex, ExtResMap[Name].SrcBindPoint,
                          ResourceMap[Name].ArraySize)
                  <=> InInterval(handleLog[k].SrcIndex, ExtResMap[Name].SrcBindPoint,
                                 ResourceMap[Name].ArraySize)
        /\ k \in Rewritten => handleLog[k].NewIndex >= ResourceMap[handleLog[k].Name].BindPoint


\* ---------------------------------------------------------------------------
\* C26: the resource class operand as an index of ResClassToType

\* The text s has a createHandle call whose resource class operand is cls
CallOfClass(s, cls) == Contains(s, CallHandlePattern \o "i32 57, i8 " \o to_string(cls) \o ",")

\* C26: every call of ReplaceBindPoint, which indexes ResClassToType with the
\* resource class of the createHandle call, has a class in 0..3; and a remap
\* of a text with a call of another class does not come past that call
C26_ClassIndexInTable ==
    /\ \A k \in DOMAIN handleLog : handleLog[k].ResClass < Len(ResClassToType)
    /\ (op = "Remap" /\ DXIL # "" /\ CallOfClass(Disasm, 4)) =>
          ~(pc \in {"Assemble", "ValidateAndSign"} \/ RemapSucceeded)


\* ---------------------------------------------------------------------------
\* C27: a remap whose reflection query fails

\* C27: GetDesc is called only on a reflection object that was obtained; when
\* GetD3D12ShaderReflection has left pShaderReflection null, the statement
\* after it ends RemapResourceBindings with the result false and nothing is
\* written to the output
C27_NoReflectionReturnsFalse ==
    /\ pc \in {"BuildMap", "Crashed"} => pShaderReflection # "null"
    /\ (op = "Remap" /\ failed = "GetD3D12ShaderReflection" /\ pc # "GetDesc") =>
          /\ pc = "Done"
          /\ Result = FALSE
          /\ DstByteCode = {}


\* ---------------------------------------------------------------------------
\* C28: the cached result of Load

\* The callers of Load() that have returned from it
Returned == {t \in Threads : callee[t] # "GetVersion" /\ at[t] \in {"loaded", "done"}}

\* C28: DXCompilerBase::Load is called at most once for a compiler object,
\* whether it returns a pointer or null; once a call of Load() has returned,
\* no step calls the loader or changes m_pCreateInstance, every call of
\* Load() that returns, from IsLoaded, GetCreateInstaceProc or
\* GetMaxShaderModel, returns that m_pCreateInstance, and so all the callers
\* that have returned hold the same result
C28_LoadedAtMostOnce ==
    /\ [](op = "Load" =>
            /\ Len(loads) <= 1
            /\ \A t, u \in Returned : observed[t].proc = observed[u].proc)
    /\ [][(op = "Load" /\ Returned # {}) =>
            /\ loads' = loads
            /\ m_pCreateInstance' = m_pCreateInstance
            /\ \A t \in Threads :
                  observed'[t].proc # observed[t].proc
                      => observed'[t].proc = m_pCreateInstance]_vars

\* The load failed in the first call; a later call of IsLoaded and one of
\* GetMaxShaderModel or GetCreateInstaceProc have returned null as well,
\* without a second load
C28_Witness ==
    /\ op = "Load"
    /\ Len(loads) = 1
    /\ m_pCreateInstance = "null"
    /\ \A t \in Threads : at[t] = "done" /\ observed[t].proc = "null"
    /\ \E t \in Threads : loads[1] # t /\ callee[t] = "IsLoaded"


\* ---------------------------------------------------------------------------
\* C29: the shader model Compile compiles with

\* The version a is not greater than the version b
VersionAtMost(a, b) == ~VersionGreater(a, b)

\* The calls of Compile that have come to GetHLSLProfileString
Compiling == {t \in Threads : callee[t] = "Compile.MaxSM" /\ at[t] = "done"}

\* C29: the shader model that a call of Compile hands to the compiler is at
\* least 6.0 and at most the m_MaxShaderModel of the compiler object; it is
\* the maximum when none was asked for, 6.0 when one below 6.0 was asked for,
\* and the maximum when one above the maximum was asked for, whether or not
\* the version query of Load succeeded
C29_ShaderModelInRange ==
    \A t \in Compiling :
        /\ VersionAtMost(<<6, 0>>, observed[t].profile)
        /\ VersionAtMost(observed[t].profile, m_MaxShaderModel)
        /\ observed[t].asked = <<0, 0>> => observed[t].profile = m_MaxShaderModel
        /\ (observed[t].asked # <<0, 0>> /\ observed[t].asked[1] < 6)
              => observed[t].profile = <<6, 0>>
        /\ VersionGreater(observed[t].asked, m_MaxShaderModel)
              => observed[t].profile = m_MaxShaderModel


\* ---------------------------------------------------------------------------
\* C30: the reads of the accessors and the writes of the first Load

\* A first call of Load() is between m_IsInitialized = true and its return:
\* it can still write m_pCreateInstance, the version and m_MaxShaderModel
Initialising == \E u \in Threads : at[u] \in {"load", "version", "model"}

\* The step is one in which the accessor that the thread t runs reads
\* m_pCreateInstance, m_MajorVer, m_MinorVer or m_MaxShaderModel
ReadsLoaderState(t) ==
    /\ at'[t] # at[t]
    /\ \/ at[t] = "idle" /\ callee[t] = "GetVersion"
       \/ at[t] = "minor"
       \/ at[t] = "check" /\ m_IsInitialized
       \/ at[t] = "loaded" /\ callee[t] \in {"GetMaxShaderModel", "Compile.MaxSM"}

\* Some caller has got the loader pointer from Load()
SeenLoaded == \E u \in Threads : observed[u].proc = "DxcCreateInstance"

\* C30: no accessor reads the loader pointer, the version or the maximum
\* shader model in a step in which a first Load() can still write them; and
\* a GetVersion that returns when some caller has seen the compiler loaded
\* returns the version that the initialisation left
C30_ReadsAfterInitialisation ==
    [][\A t \in Threads :
          /\ ReadsLoaderState(t) => ~Initialising
          /\ (SeenLoaded /\ at[t] = "minor" /\ at'[t] = "done") =>
                /\ observed'[t].major = m_MajorVer
                /\ observed'[t].minor = m_MinorVer]_vars

====
